---- MODULE Spec2Model ----
(***************************************************************************)
(* Chain-state engine of the beacon node (beacon_chain.rs): block import,  *)
(* chain-segment import, fork-choice head selection and the                *)
(* forkchoiceUpdated handshake with the execution engine.                  *)
(*                                                                         *)
(* Threads: "imp" runs process_block / process_chain_segment; the members  *)
(* of PassThreads run fork_choice_internal and                             *)
(* update_execution_engine_forkchoice_async. Each specification at the end *)
(* of the module interleaves the operations of one area.                   *)
(***************************************************************************)
EXTENDS Integers, Sequences, FiniteSets, TLC

\* ------------------------------------------------------------------------
\* Bounds
\* ------------------------------------------------------------------------
\* Number of non-genesis blocks of the block universe.
NumBlocks == 4
\* Longest chain segment handed to process_chain_segment.
MaxSegLen == 3
\* Slots per epoch of the modelled EthSpec.
SlotsPerEpoch == 2
\* Number of forkchoiceUpdated reads one behaviour may perform.
MaxNotify == 2
\* How deep an invalidation pass may nest head selection inside an engine update.
MaxNesting == 1
\* Slots of block roots a state holds (slots_per_historical_root of the EthSpec).
SlotsPerHistoricalRoot == 3
\* Highest slot of the forked chains handed to find_reorg_slot.
MaxSlot == 5
\* Last slot the wall clock reaches while the aggregation pools are in use.
MaxPoolSlot == 3
\* Most subnet positions one sync committee message covers.
MaxPositions == 2

\* The shuffling epochs with_committee_cache is called for run up to this one.
MaxShufflingEpoch == 2
\* Largest encoded size of a produced block, in units of the model.
MaxBlockSize == 3

\* ------------------------------------------------------------------------
\* The block universe: block roots, their parents, slots and post-states
\* ------------------------------------------------------------------------
GenesisRoot == 0
Roots == 0..NumBlocks
Blocks == 1..NumBlocks

\* block.parent_root(): the blocks form the chain 0 <- 1 <- 2 <- ...
parent_root(r) == r - 1

\* block.slot(): one block per slot, except that the last block of the
\* universe claims the slot of its parent (a block that is not later than
\* its parent).
slot(r) == IF r = NumBlocks /\ r > 1 THEN r - 1 ELSE r

\* A block that is not later than its parent never passes verification.
later_than_parent(r) == slot(r) > slot(parent_root(r))

\* Slot::epoch(slots_per_epoch)
epoch(s) == s \div SlotsPerEpoch

\* Epoch::start_slot(slots_per_epoch)
start_slot(e) == e * SlotsPerEpoch

Min(a, b) == IF a < b THEN a ELSE b

Max(a, b) == IF a < b THEN b ELSE a

\* Slot::saturating_sub
saturating_sub(a, b) == IF a < b THEN 0 ELSE a - b

RECURSIVE ancestor_at_slot(_, _)
\* The block of the chain of block r at slot s: r or its closest ancestor
\* whose slot is not after s.
ancestor_at_slot(r, s) ==
    IF slot(r) <= s \/ r = GenesisRoot THEN r
    ELSE ancestor_at_slot(parent_root(r), s)

\* state.finalized_checkpoint().epoch of the post-state of block r.
finalized_epoch(r) == epoch(slot(r))

\* state.finalized_checkpoint() of the post-state of block r: the epoch and
\* the root the chain of r holds at the first slot of that epoch.
finalized_checkpoint(r) ==
    [epoch |-> finalized_epoch(r),
     root |-> ancestor_at_slot(r, start_slot(finalized_epoch(r)))]

RECURSIVE is_descendant(_, _)
\* is_descendant(a, r): block r is a or descends from a.
is_descendant(a, r) ==
    IF r = a THEN TRUE
    ELSE IF r = GenesisRoot THEN FALSE
    ELSE is_descendant(a, parent_root(r))

\* ExecutionStatus of a block node of fork choice; "Absent" = not a node.
ExecutionStatus == {"Valid", "Optimistic", "Invalid", "Irrelevant"}
Absent == "Absent"

\* PayloadVerificationStatus handed to on_block, as the status it installs:
\* Verified or Optimistic for a block with a payload, Irrelevant before the
\* merge.
PayloadVerificationStatus(merged) ==
    IF merged THEN {"Valid", "Optimistic"} ELSE {"Irrelevant"}

None == "None"

\* The absent block root (Option::None of a Hash256).
NoRoot == NumBlocks + 1

\* The store's PersistedForkChoice item when there is none.
NoPersistedForkChoice == [present |-> FALSE]

\* The threads that run head-selection passes and execution-engine updates:
\* "fc" is a caller of fork_choice() (the block-processing path), "timer" a
\* second caller of fork_choice() (per_slot_task), "el" a caller of
\* update_execution_engine_forkchoice_async (the proposer-preparation path).
HeadThreads == {"fc", "timer"}
EngineThreads == {"fc", "el"}
PassThreads == HeadThreads \cup EngineThreads

VARIABLES
    fork_choice,            \* self.fork_choice: [nodes, head]
    fc_lock,                \* holder of the self.fork_choice lock, or None
    persisted_fork_choice,  \* the PersistedForkChoice item of the store
    store,                  \* roots whose block and post-state are in the store
    head_tracker,           \* self.head_tracker: roots registered as imported
    events,                 \* roots announced by EventKind::Block
    early_attester_cache,   \* self.early_attester_cache: a root, or NoRoot
    canonical_head,         \* self.canonical_head: root of the head snapshot
    imp,                    \* the thread running process_block / import_block
    seg,                    \* the running process_chain_segment call
    pass,                   \* per thread: fork_choice_internal and the engine update
    ee_lock,                \* holder of execution_engine_forkchoice_lock, or None
    engine,                 \* the execution engine: calls received and in flight
    bellatrix,              \* whether the chain runs past spec.bellatrix_fork_epoch
    block_error,            \* per block: the BlockError its verification ends in, or None
    persisted_beacon_chain, \* the PersistedBeaconChain item of the store (head tracker)
    op_pool,                \* self.op_pool: the epoch its attestations were last pruned for
    finalization,           \* what after_finalization prunes: the slots and epochs with entries
    shutdown,               \* the ShutdownReasons handed to shutdown_sender.try_send
    sse,                    \* the last Head and ChainReorg events registered
    event_handler,          \* whether self.event_handler is Some, with subscribers
    forks,                  \* two forked chains and the re-org depth found between them
    config,                 \* self.config: the ChainConfig the chain was built with
    slot_clock,             \* self.slot_clock: the wall-clock slot
    naive_aggregation_pool, \* self.naive_aggregation_pool (unaggregated attestations)
    naive_sync_aggregation_pool, \* self.naive_sync_aggregation_pool (sync messages)
    att_call,               \* the running add_to_naive_aggregation_pool call
    sync_call,              \* the running add_to_naive_sync_aggregation_pool call
    slot_task,              \* the running per_slot_task call
    fork_choice_signal,     \* the slot last signalled through self.fork_choice_signal_tx
    shuffling_cache,        \* self.shuffling_cache: committees by shuffling id
    committee_call,         \* the running with_committee_cache call
    beacon_proposer_cache,  \* self.beacon_proposer_cache: proposers by (epoch, decision root)
    proposer_call,          \* the running prepare_beacon_proposer_async call
    prepared,               \* history: a request that obtained its proposer
    production,             \* the running produce_block_on_state call
    attestation_call,       \* the running produce_unaggregated_attestation call
    wait_call,              \* the running wait_for_fork_choice_before_block_production call
    lock_holders,           \* per lock of the chain: the guards alive, as <<thread, mode>>
    lock_call               \* per thread: the acquisitions of its running operation

\* The configuration and the services of the chain beside block import and
\* head selection.
pool_vars == <<slot_clock, naive_aggregation_pool, naive_sync_aggregation_pool,
               att_call, sync_call, slot_task,
                   fork_choice_signal>>

proposer_vars == <<beacon_proposer_cache, proposer_call, prepared>>

lock_vars == <<lock_holders, lock_call>>

\* The services further down, which the pools and the shuffling cache leave alone.
more_vars == <<proposer_vars, production, attestation_call, wait_call, lock_vars>>

service_vars == <<config, pool_vars, shuffling_cache, committee_call, more_vars>>

vars == <<fork_choice, fc_lock, persisted_fork_choice, store, head_tracker, events,
          early_attester_cache, canonical_head, imp, seg, pass, ee_lock, engine,
          bellatrix, block_error, persisted_beacon_chain, op_pool, finalization, shutdown, sse,
          event_handler, forks, service_vars>>

\* What head selection and the invalidation pass write besides the chain itself.
\* The chain, its threads and the execution engine: what the services
\* beside block import and head selection leave alone.
core_vars == <<fork_choice, fc_lock, persisted_fork_choice, store, head_tracker, events,
               early_attester_cache, canonical_head, imp, seg, pass, ee_lock, engine,
               bellatrix, block_error, persisted_beacon_chain, op_pool, finalization, shutdown, sse,
               event_handler, forks>>

\* What the aggregation pools and per_slot_task leave alone, the chain aside.
beside_pool_vars == <<config, shuffling_cache, committee_call, more_vars>>

side_vars == <<persisted_beacon_chain, op_pool, finalization, shutdown, sse, event_handler, forks,
               service_vars>>

chain_vars == <<fork_choice, fc_lock, persisted_fork_choice, store, head_tracker,
                events, early_attester_cache, canonical_head, bellatrix, block_error, side_vars>>

\* What the shuffling cache warm-up of import_block leaves alone.
beside_shuffling_cache == <<fork_choice, fc_lock, persisted_fork_choice, store, head_tracker,
                            events, early_attester_cache, canonical_head, bellatrix,
                            block_error, persisted_beacon_chain, op_pool, finalization, shutdown, sse,
                            event_handler, forks, config, pool_vars, committee_call,
                            more_vars>>

\* What with_committee_cache leaves alone, the chain aside.
beside_committee_vars == <<config, pool_vars, more_vars>>

\* What prepare_beacon_proposer_async leaves alone, the chain aside.
beside_proposer_vars == <<config, pool_vars, shuffling_cache, committee_call, production,
                          attestation_call, wait_call, lock_vars>>

\* What produce_block_on_state leaves alone, the chain aside.
beside_production_vars == <<config, pool_vars, shuffling_cache, committee_call, proposer_vars,
                            attestation_call, wait_call, lock_vars>>

\* What produce_unaggregated_attestation leaves alone, the chain aside.
beside_attestation_vars == <<config, pool_vars, shuffling_cache, committee_call, proposer_vars,
                             production, wait_call, lock_vars>>

\* What wait_for_fork_choice_before_block_production leaves alone, the chain
\* aside.
beside_wait_vars == <<config, pool_vars, shuffling_cache, committee_call, proposer_vars,
                      production, attestation_call, lock_vars>>

\* What the lock acquisitions of the operations leave alone, the chain aside.
beside_lock_vars == <<config, pool_vars, shuffling_cache, committee_call, proposer_vars,
                      production, attestation_call, wait_call>>

\* ------------------------------------------------------------------------
\* Fork choice (the external scoring structure, seen through its interface)
\* ------------------------------------------------------------------------
\* fork_choice.contains_block(root)
contains_block(fc, r) == fc.nodes[r] # Absent

\* The roots fork_choice.get_head may return: a known block that descends
\* from the justified block and whose payload, and the payload of each of
\* its ancestors, is not Invalid. Which of them
\* it returns is decided by the votes and checkpoints of the scoring
\* structure, which change with the attestations that arrive concurrently
\* and are not part of the state here.
RECURSIVE no_invalid_ancestor(_, _)
no_invalid_ancestor(fc, r) ==
    /\ fc.nodes[r] # "Invalid"
    /\ (r = GenesisRoot \/ no_invalid_ancestor(fc, parent_root(r)))

get_head(fc) ==
    {r \in Roots : /\ contains_block(fc, r)
                   /\ no_invalid_ancestor(fc, r)
                   /\ is_descendant(fc.justified, r)}

\* fork_choice.get_justified_block() and fork_choice.get_finalized_block():
\* the block of the justified and of the finalized checkpoint of fork choice.
get_justified_block(fc) ==
    [root |-> fc.justified, execution_status |-> fc.nodes[fc.justified]]

get_finalized_block(fc) ==
    [root |-> fc.finalized, execution_status |-> fc.nodes[fc.finalized]]

\* fork_choice.on_block(.., block_root, .., state, payload_verification_status,
\* ..): the block becomes a node, and the finalized checkpoint of fork choice
\* moves to the one of the state when that is of a later epoch.
on_block(fc, r, status) ==
    [fc EXCEPT !.nodes[r] = status,
               !.finalized = IF finalized_epoch(r) > epoch(slot(@))
                             THEN finalized_checkpoint(r).root ELSE @]

\* The known blocks on the path from block r up to, and excluding, the block
\* `stop` (up to genesis when `stop` is not an ancestor of r).
RECURSIVE ancestors_until(_, _)
ancestors_until(r, stop) ==
    IF r = stop THEN {}
    ELSE IF r = GenesisRoot THEN {r}
    ELSE {r} \cup ancestors_until(parent_root(r), stop)

\* InvalidationOperation::InvalidateOne { block_root }
InvalidateOne(r) == [block_root |-> r, latest_valid_ancestor |-> NoRoot]

\* InvalidationOperation::InvalidateMany { head_block_root,
\*     always_invalidate_head: true, latest_valid_ancestor }
InvalidateMany(r, lva) == [block_root |-> r, latest_valid_ancestor |-> lva]

\* The blocks an invalidation operation names: the block itself, always,
\* and, when the latest valid ancestor is a known ancestor of it, every
\* block between the two (the ancestor excluded).
invalidated_ancestors(fc, op) ==
    {op.block_root} \cup
    (IF /\ op.latest_valid_ancestor # NoRoot
        /\ contains_block(fc, op.latest_valid_ancestor)
        /\ is_descendant(op.latest_valid_ancestor, op.block_root)
     THEN {r \in ancestors_until(op.block_root, op.latest_valid_ancestor) :
             fc.nodes[r] # "Irrelevant"}
     ELSE {})

\* Whether fork_choice.on_invalid_execution_payload(op) returns an error: the
\* block is unknown or carries no payload.
on_invalid_execution_payload_fails(fc, op) ==
    ~contains_block(fc, op.block_root) \/ fc.nodes[op.block_root] = "Irrelevant"

\* fork_choice.on_invalid_execution_payload(op): the named blocks and all
\* their known descendants become Invalid. An unknown block is an error.
on_invalid_execution_payload(fc, op) ==
    IF on_invalid_execution_payload_fails(fc, op)
    THEN fc
    ELSE [fc EXCEPT !.nodes =
            [r \in Roots |->
                IF /\ contains_block(fc, r)
                   /\ \E a \in invalidated_ancestors(fc, op) : is_descendant(a, r)
                THEN "Invalid" ELSE fc.nodes[r]]]

\* fork_choice.on_valid_execution_payload(root): an Optimistic block becomes
\* Valid; the status of any other block stays.
on_valid_execution_payload(fc, r) ==
    IF fc.nodes[r] = "Optimistic" THEN [fc EXCEPT !.nodes[r] = "Valid"] ELSE fc

\* fork_choice.get_forkchoice_update_parameters(): the head of the last
\* get_head.
get_forkchoice_update_parameters(fc) == fc.head

\* PersistedForkChoice of a fork choice, and the fork choice it loads as.
to_persisted(fc) ==
    [present |-> TRUE, nodes |-> fc.nodes, head |-> fc.head,
     justified |-> fc.justified, finalized |-> fc.finalized]

from_persisted(persisted) ==
    [nodes |-> persisted.nodes, head |-> persisted.head,
     justified |-> persisted.justified, finalized |-> persisted.finalized]

\* The fork choice a freshly built chain holds: the genesis block only.
genesis_fork_choice ==
    [nodes |-> [r \in Roots |-> IF r = GenesisRoot THEN "Irrelevant" ELSE Absent],
     head |-> GenesisRoot, justified |-> GenesisRoot, finalized |-> GenesisRoot]

\* ------------------------------------------------------------------------
\* Initial state: the chain after construction from genesis
\* ------------------------------------------------------------------------
\* self.observed_block_producers and self.attester_cache of a chain that
\* has observed no proposer on gossip and produced no attestation.
no_entries == [observed_block_producers |-> {}, attester_cache |-> {}]

\* The two of a chain that has observed the proposer of every block and
\* produced attestations in every epoch of the blocks.
every_entry ==
    [observed_block_producers |-> {slot(r) : r \in Blocks},
     attester_cache |-> {epoch(slot(r)) : r \in Roots}]

imp_idle == [pc |-> "idle", block |-> GenesisRoot, status |-> "Valid", result |-> None,
             wss_result |-> None]

\* The locals of process_chain_segment, with the record of the call: the
\* filtered segment as the first loop left it, the blocks process_block
\* returned Ok for, and the fork choice, store and head tracker at the call.
no_snapshot == [fork_choice |-> genesis_fork_choice, store |-> {}, head_tracker |-> {}]

seg_idle == [pc |-> "idle", chain_segment |-> <<>>, i |-> 1,
             filtered_chain_segment |-> <<>>, blocks |-> <<>>, imported_blocks |-> 0,
             result |-> None, error |-> None,
             filtered |-> <<>>, imported |-> <<>>, before |-> no_snapshot]

no_response == [status |-> None, latest_valid_hash |-> NoRoot]

\* The locals of fork_choice_internal and of the execution-engine update of
\* one thread, with the record of whether the pass swapped the head.
pass_idle == [pc |-> "idle", root |-> GenesisRoot, old |-> GenesisRoot, is_reorg |-> FALSE,
              reorg_distance |-> 0, finalized_block |-> "Irrelevant",
              depth |-> 0, params |-> GenesisRoot, ticket |-> 0,
              response |-> no_response, result |-> None,
              swapped |-> FALSE]

\* The store's PersistedBeaconChain item when there is none.
NoPersistedBeaconChain == [present |-> FALSE]

\* make_persisted_head(genesis_block_root, head_tracker)
make_persisted_head(tracker) == [present |-> TRUE, ssz_head_tracker |-> tracker]

\* No Head or ChainReorg event was registered yet.
no_event == [block |-> NoRoot, old_head_block |-> NoRoot, depth |-> 0,
             epoch_transition |-> FALSE]

\* The wall-clock slot of self.slot() and the epoch of self.epoch(): the
\* clock stands at the slot after the last block of the universe.
current_slot == NumBlocks + 1

current_epoch == epoch(current_slot)

\* No pair of forked chains is under comparison.
forks_idle == [pc |-> "idle", ancestor_slot |-> 0, old_slots |-> {}, new_slots |-> {},
               finalized_epoch |-> 0, distance |-> 0]

\* No thread runs and no lock is held; nothing was sent or announced.
InitThreads ==
    /\ shutdown = {}
    /\ sse = no_event
    /\ fc_lock = None
    /\ imp = imp_idle
    /\ seg = seg_idle
    /\ pass = [t \in PassThreads |-> pass_idle]
    /\ ee_lock = None
    /\ engine = [reads |-> 0, received |-> <<>>, in_flight |-> 0]

\* ChainConfig::default(), as far as the chain reads it: no weak
\* subjectivity checkpoint is configured.
default_config == [weak_subjectivity_checkpoint |-> [present |-> FALSE],
                   max_network_size |-> MaxBlockSize]

\* NaiveAggregationPool::default(): no item, every slot permitted.
empty_pool == [lowest_permissible_slot |-> 0, maps |-> {}]

\* No call of add_to_naive_aggregation_pool, of
\* add_to_naive_sync_aggregation_pool or of per_slot_task is running.
att_idle == [pc |-> "idle", slot |-> 0, well_formed |-> TRUE, outcome |-> None,
             result |-> None]

sync_idle == [pc |-> "idle", slot |-> 0, well_formed |-> TRUE, positions |-> 0,
              outcome |-> None, result |-> None]

slot_task_idle == [pc |-> "idle", slot |-> 0]

\* ------------------------------------------------------------------------
\* Committee shufflings and the shuffling cache
\* ------------------------------------------------------------------------
\* The slot whose block decides the attester shuffling of epoch e: the last
\* slot before the epoch before e.
attester_shuffling_decision_slot(e) ==
    saturating_sub(start_slot(saturating_sub(e, 1)), 1)

\* state.attester_shuffling_decision_root(block_root, relative_epoch) of the
\* state of block r advanced to slot state_slot, for shuffling epoch e.
attester_shuffling_decision_root(r, state_slot, e) ==
    IF state_slot <= attester_shuffling_decision_slot(e) THEN r
    ELSE ancestor_at_slot(r, attester_shuffling_decision_slot(e))

\* AttestationShufflingId::new(block_root, &state, relative_epoch)
AttestationShufflingId_new(r, state_slot, e) ==
    [shuffling_epoch |-> e,
     shuffling_decision_block |-> attester_shuffling_decision_root(r, state_slot, e)]

\* RelativeEpoch::from_epoch(base, other)
RelativeEpoch_from_epoch(base, other) ==
    IF other = base THEN "Current"
    ELSE IF other = base + 1 THEN "Next"
    ELSE IF other + 1 = base THEN "Previous"
    ELSE "Error"

\* state.committee_cache(relative_epoch) of the state of block r advanced to
\* slot state_slot: the shuffling of epoch e, seeded by the chain of the
\* state up to the decision slot of e.
committee_cache(r, state_slot, e) ==
    [shuffling_epoch |-> e,
     seed |-> ancestor_at_slot(r, attester_shuffling_decision_slot(e))]

\* The shuffling ids fork choice keeps with block r.
current_epoch_shuffling_id(r) == AttestationShufflingId_new(r, slot(r), epoch(slot(r)))

next_epoch_shuffling_id(r) == AttestationShufflingId_new(r, slot(r), epoch(slot(r)) + 1)

\* BlockShufflingIds { current, next, block_root }.id_for_epoch(e): the id, or
\* nothing for an epoch before the epoch of the block.
id_for_epoch(r, e) ==
    IF e = epoch(slot(r)) THEN {current_epoch_shuffling_id(r)}
    ELSE IF e = epoch(slot(r)) + 1 THEN {next_epoch_shuffling_id(r)}
    ELSE IF e > epoch(slot(r)) + 1
         THEN {[shuffling_epoch |-> e, shuffling_decision_block |-> r]}
    ELSE {}

\* shuffling_cache.contains(&id), .get(&id) and .insert(id, committee_cache)
shuffling_cache_contains(cache, id) == \E entry \in cache : entry.id = id

shuffling_cache_get(cache, id) == (CHOOSE entry \in cache : entry.id = id).committee

shuffling_cache_insert(cache, id, committee) ==
    {entry \in cache : entry.id # id} \cup {[id |-> id, committee |-> committee]}

\* The state store.get_advanced_state(block_root, target_slot, ..) may give:
\* the post-state of the block, or that state advanced towards target_slot.
get_advanced_state(r, target_slot) == slot(r)..target_slot

RECURSIVE warm_shuffling_cache(_, _, _)
\* for relative_epoch in &[RelativeEpoch::Current, RelativeEpoch::Next] of
\* import_block: a shuffling that is not cached is built from the post-state
\* of the block and cached under the id of the block and that epoch.
warm_shuffling_cache(cache, r, relative_epochs) ==
    IF relative_epochs = <<>> THEN cache
    ELSE LET e == epoch(slot(r)) + Head(relative_epochs)
             shuffling_id == AttestationShufflingId_new(r, slot(r), e)
             warmed == IF shuffling_cache_contains(cache, shuffling_id) THEN cache
                       ELSE shuffling_cache_insert(cache, shuffling_id,
                                                   committee_cache(r, slot(r), e))
         IN warm_shuffling_cache(warmed, r, Tail(relative_epochs))

\* The same loop caching the current-epoch committee of the state under
\* both ids.
import_block_shufflings_current_only(cache, r) ==
    LET current == committee_cache(r, slot(r), epoch(slot(r)))
        ids == {AttestationShufflingId_new(r, slot(r), epoch(slot(r)) + d) : d \in {0, 1}}
    IN cache \cup {[id |-> id, committee |-> current] :
                      id \in {i \in ids : ~shuffling_cache_contains(cache, i)}}

import_block_shufflings(cache, r) == warm_shuffling_cache(cache, r, <<0, 1>>)

committee_idle ==
    [pc |-> "idle", head_block_root |-> GenesisRoot, shuffling_epoch |-> 0,
     shuffling_id |-> [shuffling_epoch |-> 0, shuffling_decision_block |-> GenesisRoot],
     committee |-> [shuffling_epoch |-> 0, seed |-> GenesisRoot],
     path |-> None, result |-> None]

\* ------------------------------------------------------------------------
\* Proposer duties and the proposer cache
\* ------------------------------------------------------------------------
\* state.proposer_shuffling_decision_root(block_root) of the state of block r
\* advanced to slot state_slot: the block at the last slot before the epoch of
\* the state.
proposer_shuffling_decision_root(r, state_slot) ==
    LET decision_slot == saturating_sub(start_slot(epoch(state_slot)), 1)
    IN IF state_slot = decision_slot THEN r ELSE ancestor_at_slot(r, decision_slot)

\* The proposers of an epoch, one per slot, as the state of block r advanced
\* to slot state_slot shuffles them: decided by the epoch and the chain up to
\* the decision slot.
get_beacon_proposer_indices(r, state_slot) ==
    [epoch |-> epoch(state_slot), seed |-> proposer_shuffling_decision_root(r, state_slot)]

\* proposers.get(index): the proposer index of a position of the epoch.
proposer_at(proposers, index) == <<proposers.seed, proposers.epoch, index>>

\* beacon_proposer_cache.get_slot(shuffling_decision_root, slot): the proposer
\* of the slot, or nothing.
get_slot(cache, shuffling_decision_root, at_slot) ==
    {proposer_at(entry.proposers, at_slot % SlotsPerEpoch) :
        entry \in {e \in cache : /\ e.epoch = epoch(at_slot)
                                 /\ e.decision_root = shuffling_decision_root}}

\* beacon_proposer_cache.insert(epoch, decision_root, proposers, fork): an
\* entry already under the key is kept.
beacon_proposer_cache_insert(cache, e, decision_root, proposers) ==
    IF \E entry \in cache : entry.epoch = e /\ entry.decision_root = decision_root
    THEN cache
    ELSE cache \cup {[epoch |-> e, decision_root |-> decision_root,
                      proposers |-> proposers]}

\* compute_proposer_duties_from_head(prepare_epoch, chain) with head_root the
\* canonical head it reads: the state of the head is advanced to the epoch
\* (an epoch behind the head is an error), and the proposers and the decision
\* root of the advanced state are returned.
compute_proposer_duties_from_head(prepare_epoch, head_root) ==
    LET state_slot == Max(slot(head_root), start_slot(prepare_epoch))
    IN IF epoch(slot(head_root)) > prepare_epoch THEN {}
       ELSE {[proposers |-> get_beacon_proposer_indices(head_root, state_slot),
              decision_root |-> proposer_shuffling_decision_root(head_root, state_slot)]}

proposer_idle ==
    [pc |-> "idle", prepare_slot |-> 0, head_epoch |-> 0,
     shuffling_decision_root |-> GenesisRoot,
     duties |-> [proposers |-> [epoch |-> 0, seed |-> GenesisRoot],
                 decision_root |-> GenesisRoot],
     proposer |-> <<>>, cached |-> FALSE, result |-> None]

\* The locks of the chain that the operations below take.
LockNames == {"canonical_head", "fork_choice", "shuffling_cache",
              "observed_block_attesters", "observed_block_producers",
              "execution_engine_forkchoice_lock"}

\* The threads that take them: block import, two head selections, the
\* execution-engine notification and a committee-cache lookup.
LockThreads == {"imp", "fc", "timer", "el", "committee"}

\* No guard is alive on any lock.
no_guards == [lock \in LockNames |-> {}]

\* No operation is running on the thread.
lock_idle == [acquisitions |-> <<>>, i |-> 1, requesting |-> FALSE]

\* No produce_unaggregated_attestation call is running.
wait_idle == [pc |-> "idle", slot |-> 0, signal |-> 0, wait_result |-> None,
              result |-> None]

attestation_idle ==
    [pc |-> "idle", request_slot |-> 0, beacon_block_root |-> NoRoot, result |-> None]

production_idle ==
    [pc |-> "idle", verification |-> "VerifyRandao", block_size |-> 0,
     per_block_processing |-> FALSE, result |-> None, block |-> FALSE]

nothing_prepared ==
    [present |-> FALSE, shuffling_decision_root |-> GenesisRoot, prepare_slot |-> 0,
     proposer |-> <<>>, cached |-> FALSE]

\* The clock at the genesis slot, the pools empty, no call running.
InitPools ==
    /\ slot_clock = 0
    /\ naive_aggregation_pool = empty_pool
    /\ naive_sync_aggregation_pool = empty_pool
    /\ att_call = att_idle
    /\ sync_call = sync_idle
    /\ slot_task = slot_task_idle
    /\ fork_choice_signal = 0

\* The caches empty, no call running, no lock taken.
InitCalls ==
    /\ shuffling_cache = {}
    /\ committee_call = committee_idle
    /\ beacon_proposer_cache = {}
    /\ proposer_call = proposer_idle
    /\ prepared = nothing_prepared
    /\ production = production_idle
    /\ attestation_call = attestation_idle
    /\ wait_call = wait_idle
    /\ lock_holders = no_guards
    /\ lock_call = [t \in LockThreads |-> lock_idle]

\* The chain runs with the default configuration.
InitServices ==
    /\ config = default_config
    /\ InitPools
    /\ InitCalls

\* The blocks of the universe: all pass verification, or one of them fails
\* it with an invalid signature or an invalid state transition; the block
\* that is not later than its parent always fails.
BlockErrors ==
    {f \in [Blocks -> {None, "InvalidSignature", "StateRootMismatch",
                        "BlockIsNotLaterThanParent"}] :
        /\ \A r \in Blocks :
              f[r] = "BlockIsNotLaterThanParent" <=> ~later_than_parent(r)
        /\ Cardinality({r \in Blocks : later_than_parent(r) /\ f[r] # None}) <= 1}

\* A chain built from genesis, before the merge; the store may or may not
\* hold a persisted fork choice yet.
Init ==
    /\ InitThreads
    /\ InitServices
    /\ forks = forks_idle
    /\ bellatrix = FALSE
    /\ block_error \in BlockErrors
    /\ event_handler = FALSE
    /\ op_pool = 0
    /\ finalization = no_entries
    /\ fork_choice = genesis_fork_choice
    /\ \/ /\ persisted_fork_choice = NoPersistedForkChoice
          /\ persisted_beacon_chain = NoPersistedBeaconChain
       \/ /\ persisted_fork_choice = to_persisted(genesis_fork_choice)
          /\ persisted_beacon_chain = make_persisted_head({GenesisRoot})
    /\ store = {GenesisRoot}
    /\ head_tracker = {GenesisRoot}
    /\ events = {}
    /\ early_attester_cache = NoRoot
    /\ canonical_head = GenesisRoot

\* The weak subjectivity checkpoints a chain may be configured with.
WssCheckpoints ==
    {[present |-> TRUE, epoch |-> e, root |-> r] : e \in 0..epoch(NumBlocks), r \in Roots}

\* A chain built from genesis with a weak subjectivity checkpoint configured.
InitWss ==
    /\ InitThreads
    /\ config \in {[default_config EXCEPT !.weak_subjectivity_checkpoint = c] :
                      c \in WssCheckpoints}
    /\ InitPools
    /\ InitCalls
    /\ forks = forks_idle
    /\ bellatrix = FALSE
    /\ block_error \in BlockErrors
    /\ event_handler = FALSE
    /\ op_pool = 0
    /\ finalization = no_entries
    /\ fork_choice = genesis_fork_choice
    /\ persisted_fork_choice = to_persisted(genesis_fork_choice)
    /\ persisted_beacon_chain = make_persisted_head({GenesisRoot})
    /\ store = {GenesisRoot}
    /\ head_tracker = {GenesisRoot}
    /\ events = {}
    /\ early_attester_cache = NoRoot
    /\ canonical_head = GenesisRoot

\* The blocks of the universe that pass verification.
ImportableBlocks == {r \in Blocks : later_than_parent(r)}

\* The state of a chain whose importable blocks were all imported with the
\* execution status `status` and on which head selection has not run yet.
InitImported(status) ==
    /\ InitThreads
    /\ InitServices
    /\ forks = forks_idle
    /\ block_error = [r \in Blocks |->
                        IF later_than_parent(r) THEN None ELSE "BlockIsNotLaterThanParent"]
    /\ fork_choice =
          [nodes |-> [r \in Roots |->
                        IF r = GenesisRoot THEN "Irrelevant"
                        ELSE IF r \in ImportableBlocks THEN status ELSE Absent],
           head |-> GenesisRoot, justified |-> GenesisRoot, finalized |-> GenesisRoot]
    /\ persisted_fork_choice = to_persisted(genesis_fork_choice)
    /\ persisted_beacon_chain = make_persisted_head({GenesisRoot})
    /\ store = {GenesisRoot} \cup ImportableBlocks
    /\ head_tracker = {GenesisRoot} \cup ImportableBlocks
    /\ events = ImportableBlocks
    /\ early_attester_cache = NoRoot
    /\ canonical_head = GenesisRoot

\* Past the merge, every block imported optimistically; no event handler, and
\* the operation pool already pruned for the current epoch.
InitEngine ==
    /\ bellatrix = TRUE
    /\ event_handler = FALSE
    /\ op_pool = current_epoch
    /\ finalization = no_entries
    /\ InitImported("Optimistic")

\* Before the merge, every block imported; events have subscribers.
InitHead ==
    /\ bellatrix = FALSE
    /\ event_handler = TRUE
    /\ op_pool = 0
    /\ finalization = every_entry
    /\ InitImported("Irrelevant")

\* Past the merge, with block 1 (imported optimistically, as every block) the
\* justified and finalized block of fork choice and the canonical head; no
\* event handler, the operation pool already pruned for the current epoch.
InitJustified ==
    /\ InitThreads
    /\ InitServices
    /\ forks = forks_idle
    /\ bellatrix = TRUE
    /\ event_handler = FALSE
    /\ op_pool = current_epoch
    /\ finalization = no_entries
    /\ block_error = [r \in Blocks |->
                        IF later_than_parent(r) THEN None ELSE "BlockIsNotLaterThanParent"]
    /\ fork_choice =
          [nodes |-> [r \in Roots |->
                        IF r = GenesisRoot THEN "Irrelevant"
                        ELSE IF r \in ImportableBlocks THEN "Optimistic" ELSE Absent],
           head |-> 1, justified |-> 1, finalized |-> 1]
    /\ persisted_fork_choice = to_persisted(fork_choice)
    /\ persisted_beacon_chain = make_persisted_head({GenesisRoot} \cup ImportableBlocks)
    /\ store = {GenesisRoot} \cup ImportableBlocks
    /\ head_tracker = {GenesisRoot} \cup ImportableBlocks
    /\ events = ImportableBlocks
    /\ early_attester_cache = NoRoot
    /\ canonical_head = 1

\* Past the merge, blocks 1 and 2 imported optimistically with block 2 the
\* head, block 3 not yet imported; every block passes verification.
InitHandoff ==
    /\ InitThreads
    /\ InitServices
    /\ forks = forks_idle
    /\ bellatrix = TRUE
    /\ event_handler = FALSE
    /\ op_pool = current_epoch
    /\ finalization = no_entries
    /\ block_error = [r \in Blocks |->
                        IF later_than_parent(r) THEN None ELSE "BlockIsNotLaterThanParent"]
    /\ fork_choice =
          [nodes |-> [r \in Roots |->
                        IF r = GenesisRoot THEN "Irrelevant"
                        ELSE IF r \in {1, 2} THEN "Optimistic" ELSE Absent],
           head |-> 2, justified |-> GenesisRoot, finalized |-> GenesisRoot]
    /\ persisted_fork_choice = to_persisted(fork_choice)
    /\ persisted_beacon_chain = make_persisted_head({GenesisRoot, 1, 2})
    /\ store = {GenesisRoot, 1, 2}
    /\ head_tracker = {GenesisRoot, 1, 2}
    /\ events = {1, 2}
    /\ early_attester_cache = NoRoot
    /\ canonical_head = 2

\* ------------------------------------------------------------------------
\* process_block and import_block (thread "imp")
\* ------------------------------------------------------------------------
imp_return(result) == [imp EXCEPT !.pc = "done", !.result = result]

\* process_block is entered with block b (from gossip or RPC); no chain
\* segment is being processed on the thread.
process_block(b) ==
    /\ imp.pc \in {"idle", "done"}
    /\ seg.pc \in {"idle", "done"}
    /\ imp' = [imp EXCEPT !.pc = "verify", !.block = b, !.result = None,
                           !.wss_result = None]
    /\ seg' = seg_idle
    /\ UNCHANGED <<chain_vars, pass, ee_lock, engine>>

\* check_block_relevancy(block, block_root, chain): the outcomes it may have.
\* A block known to fork choice is BlockIsAlreadyKnown; an unknown block is
\* relevant, or from a future slot, or the clock cannot be read.
check_block_relevancy(fc, r) ==
    IF contains_block(fc, r) THEN {"BlockIsAlreadyKnown"}
    ELSE {"Ok", "FutureSlot", "BeaconChainError"}

\* The verdict of full verification on block r for a chain whose fork choice
\* is fc: already known, parent unknown, the block's own error, or None.
block_verdict(fc, r, error) ==
    IF contains_block(fc, r) THEN "BlockIsAlreadyKnown"
    ELSE IF ~contains_block(fc, parent_root(r)) THEN "ParentUnknown"
    ELSE error

\* into_fully_verified_block: the block is rejected when it is already known
\* to fork choice, when its parent is unknown, or when verification fails
\* (on the block, or on an internal error); otherwise it yields the payload
\* verification status.
into_fully_verified_block ==
    /\ imp.pc = "verify"
    /\ fc_lock = None
    /\ LET verdict == block_verdict(fork_choice, imp.block, block_error[imp.block])
       IN \/ /\ verdict # None
             /\ imp' = imp_return(verdict)
          \/ /\ verdict = None
             /\ \/ imp' = imp_return("BeaconChainError")
                \/ \E status \in PayloadVerificationStatus(bellatrix) :
                      imp' = [imp EXCEPT !.pc = "import_block", !.status = status]
    /\ UNCHANGED <<chain_vars, seg, pass, ee_lock, engine>>

\* import_block up to taking the fork choice lock: the clock read, the
\* observed-attestation, pubkey, shuffling and attester caches. A clock error
\* or a cache lock timeout returns the error; otherwise the thread goes on to
\* self.fork_choice.write().
import_block_caches ==
    /\ imp.pc = "import_block"
    /\ \/ /\ imp' = imp_return("BeaconChainError")
          /\ shuffling_cache' \in {shuffling_cache,
                                   warm_shuffling_cache(shuffling_cache, imp.block, <<0>>),
                                   import_block_shufflings(shuffling_cache, imp.block)}
       \/ /\ imp' = [imp EXCEPT !.pc = "fork_choice_write"]
          /\ shuffling_cache' = import_block_shufflings(shuffling_cache, imp.block)
    /\ UNCHANGED <<beside_shuffling_cache, seg, pass, ee_lock, engine>>

\* let mut fork_choice = self.fork_choice.write();
import_block_lock ==
    /\ imp.pc = "fork_choice_write"
    /\ fc_lock = None
    /\ fc_lock' = "imp"
    /\ imp' = [imp EXCEPT !.pc = "on_block"]
    /\ UNCHANGED <<fork_choice, persisted_fork_choice, store, head_tracker, events,
                   early_attester_cache, canonical_head, seg, pass, ee_lock, engine, bellatrix, block_error, side_vars>>

\* fork_choice.finalized_checkpoint().epoch: the epoch of the finalized block
\* of fork choice.
fork_choice_finalized_epoch(fc) == epoch(slot(fc.finalized))

\* root_at_slot_from_state(target_slot, beacon_block_root, state): the block
\* root with its slot, then the roots the state iterates back through, every
\* slot down to genesis; the root at target_slot, NoRoot when no such slot
\* is met.
root_at_slot_from_state(target_slot, r) ==
    IF target_slot <= slot(r) THEN ancestor_at_slot(r, target_slot) ELSE NoRoot

\* verify_weak_subjectivity_checkpoint(wss_checkpoint, beacon_block_root,
\* state), the results it may have: with the epochs equal the roots are
\* compared; with the checkpoint older than the finalized one the root at
\* its start slot on the chain of the block is compared (the iterator may
\* fail on the store); otherwise Ok.
verify_weak_subjectivity_checkpoint(wss_checkpoint, r) ==
    LET fin == finalized_checkpoint(r)
        root == root_at_slot_from_state(start_slot(wss_checkpoint.epoch), r)
    IN IF wss_checkpoint.epoch = fin.epoch /\ wss_checkpoint.root # fin.root
       THEN {"WeakSubjectivtyVerificationFailure"}
       ELSE IF wss_checkpoint.epoch < fin.epoch
       THEN {"DBError"} \cup
            (IF root = NoRoot \/ root # wss_checkpoint.root
             THEN {"WeakSubjectivtyVerificationFailure"} ELSE {"Ok"})
       ELSE {"Ok"}

\* Whether import_block runs the weak subjectivity check on block r: a
\* checkpoint is configured, and the block moves the finalized epoch from
\* before the checkpoint's epoch to it or past it.
weak_subjectivity_check_applies(wss_checkpoint, fc, r) ==
    /\ wss_checkpoint.present
    /\ fork_choice_finalized_epoch(fc) < wss_checkpoint.epoch
    /\ wss_checkpoint.epoch <= finalized_checkpoint(r).epoch

\* The reason of the shutdown import_block requests on a failed check.
WEAK_SUBJECTIVITY_SHUTDOWN_REASON ==
    "Weak subjectivity checkpoint verification failed. Provided block root is not a checkpoint."

\* weak_subjectivity_check_passed with the result of the check ignored.
weak_subjectivity_check_ignored(wss_result) == TRUE

\* if let Err(e) = self.verify_weak_subjectivity_checkpoint(..): whether the
\* import goes on after the check.
weak_subjectivity_check_passed(wss_result) == wss_result = "Ok"

\* What import_block returns after a failed check: WeakSubjectivityConflict
\* once try_send took the shutdown request, the error of try_send (as
\* BeaconChainError) when it did not.
weak_subjectivity_conflict_results ==
    {"WeakSubjectivityConflict", "WeakSubjectivtyShutdownError"}

\* fork_choice.on_block under the lock, with the block delay read from the
\* clock before it: a failure returns (dropping the lock) with fork choice
\* as it was; otherwise the block is registered.
import_block_register_with_fork_choice ==
    \/ /\ imp' = imp_return("ForkChoiceError")
       /\ fc_lock' = None
       /\ UNCHANGED fork_choice
    \/ /\ fork_choice' = on_block(fork_choice, imp.block, imp.status)
       /\ imp' = [imp EXCEPT !.pc = "on_attestation"]
       /\ UNCHANGED fc_lock

\* The finalized-descendant check, whose failure returns; then, when the
\* weak subjectivity check applies, verify_weak_subjectivity_checkpoint, and
\* otherwise fork_choice.on_block at once.
import_block_on_block ==
    /\ imp.pc = "on_block"
    /\ IF weak_subjectivity_check_applies(config.weak_subjectivity_checkpoint,
                                          fork_choice, imp.block)
       THEN \/ /\ imp' = imp_return("ForkChoiceError")
               /\ fc_lock' = None
               /\ UNCHANGED fork_choice
            \/ /\ \E wss_result \in verify_weak_subjectivity_checkpoint(
                                         config.weak_subjectivity_checkpoint, imp.block) :
                      imp' = [imp EXCEPT !.pc = "weak_subjectivity",
                                         !.wss_result = wss_result]
               /\ UNCHANGED <<fork_choice, fc_lock>>
       ELSE import_block_register_with_fork_choice
    /\ UNCHANGED <<persisted_fork_choice, store, head_tracker, events,
                   early_attester_cache, canonical_head, seg, pass, ee_lock, engine, bellatrix, block_error, side_vars>>

\* After verify_weak_subjectivity_checkpoint: on an error the shutdown
\* request goes to shutdown_sender.try_send and import_block returns,
\* dropping the lock; otherwise the block goes to fork_choice.on_block.
import_block_weak_subjectivity ==
    /\ imp.pc = "weak_subjectivity"
    /\ IF weak_subjectivity_check_passed(imp.wss_result)
       THEN /\ import_block_register_with_fork_choice
            /\ UNCHANGED shutdown
       ELSE /\ shutdown' = shutdown \cup {WEAK_SUBJECTIVITY_SHUTDOWN_REASON}
            /\ \E result \in weak_subjectivity_conflict_results :
                  imp' = imp_return(result)
            /\ fc_lock' = None
            /\ UNCHANGED fork_choice
    /\ UNCHANGED <<persisted_fork_choice, store, head_tracker, events,
                   early_attester_cache, canonical_head, seg, pass, ee_lock, engine,
                   bellatrix, block_error, persisted_beacon_chain, op_pool, finalization, sse,
                   event_handler, forks, service_vars>>

\* Whether import_block offers the block to the early attester cache: it was
\* not imported optimistically (and is recent enough, which the clock decides).
early_attester_candidate(status) == status # "Optimistic"

\* Between on_block and the store write, under the lock: the block's
\* attestations go to fork choice, get_head is consulted for the early
\* attester cache, the sync aggregate and the metrics read the clock. Any of
\* these may return an error with `?`, which drops the lock.
import_block_on_attestation ==
    /\ imp.pc = "on_attestation"
    /\ \/ /\ imp' = imp_return("BeaconChainError")
          /\ fc_lock' = None
          /\ UNCHANGED <<fork_choice, early_attester_cache>>
       \/ /\ imp' = [imp EXCEPT !.pc = "do_atomically"]
          /\ UNCHANGED fc_lock
          /\ \/ UNCHANGED <<fork_choice, early_attester_cache>>
             \/ /\ early_attester_candidate(imp.status)
                /\ \E new_head_root \in get_head(fork_choice) :
                      /\ fork_choice' = [fork_choice EXCEPT !.head = new_head_root]
                      /\ early_attester_cache' =
                            IF new_head_root = imp.block THEN imp.block
                            ELSE early_attester_cache
    /\ UNCHANGED <<persisted_fork_choice, store, head_tracker, events,
                   canonical_head, seg, pass, ee_lock, engine, bellatrix, block_error, side_vars>>

\* The fork choice import_block holds after a failed store write: the one
\* load_fork_choice reads back (Some), or the one in memory when the store
\* holds no persisted fork choice (None).
restore_fork_choice(fc, persisted) ==
    IF persisted.present THEN from_persisted(persisted) ELSE fc

\* import_block_do_atomically with the result of the store write ignored:
\* the import goes on whether or not the block reached the store.
import_block_do_atomically_unchecked ==
    /\ imp.pc = "do_atomically"
    /\ \/ store' = store \cup {imp.block}
       \/ UNCHANGED store
    /\ imp' = [imp EXCEPT !.pc = "drop_fork_choice"]
    /\ UNCHANGED <<fork_choice, fc_lock, persisted_fork_choice, head_tracker, events,
                   early_attester_cache, canonical_head, seg, pass, ee_lock, engine,
                   bellatrix, block_error, side_vars>>

\* self.store.do_atomically(ops): on success the block and its state are in
\* the store; on failure fork choice is reloaded from disk and the write
\* error returned, unless load_fork_choice itself fails, whose error is then
\* returned with fork choice left as it is.
import_block_do_atomically ==
    /\ imp.pc = "do_atomically"
    /\ \/ /\ store' = store \cup {imp.block}
          /\ imp' = [imp EXCEPT !.pc = "drop_fork_choice"]
          /\ UNCHANGED <<fork_choice, fc_lock>>
       \/ /\ fork_choice' =
                restore_fork_choice(fork_choice, persisted_fork_choice)
          /\ imp' = imp_return("DBError")
          /\ fc_lock' = None
          /\ UNCHANGED store
       \/ /\ imp' = imp_return("LoadForkChoiceError")
          /\ fc_lock' = None
          /\ UNCHANGED <<store, fork_choice>>
    /\ UNCHANGED <<persisted_fork_choice, head_tracker, events,
                   early_attester_cache, canonical_head, seg, pass, ee_lock, engine, bellatrix, block_error, side_vars>>

\* drop(fork_choice): the write lock is released after the store write.
import_block_drop_lock ==
    /\ imp.pc = "drop_fork_choice"
    /\ fc_lock' = None
    /\ imp' = [imp EXCEPT !.pc = "register_block"]
    /\ UNCHANGED <<fork_choice, persisted_fork_choice, store, head_tracker, events,
                   early_attester_cache, canonical_head, seg, pass, ee_lock, engine, bellatrix, block_error, side_vars>>

\* head_tracker.register_block, the block event, and Ok(block_root).
import_block_register ==
    /\ imp.pc = "register_block"
    /\ head_tracker' = head_tracker \cup {imp.block}
    /\ events' = events \cup {imp.block}
    /\ imp' = imp_return("Ok")
    /\ UNCHANGED <<fork_choice, fc_lock, persisted_fork_choice, store,
                   early_attester_cache, canonical_head, seg, pass, ee_lock, engine, bellatrix, block_error, side_vars>>

\* The steps of import_block on a chain without a weak subjectivity
\* checkpoint, where import_block_weak_subjectivity is never entered.
import_block_step ==
    \/ into_fully_verified_block
    \/ import_block_caches
    \/ import_block_lock
    \/ import_block_on_block
    \/ import_block_on_attestation
    \/ import_block_do_atomically
    \/ import_block_drop_lock
    \/ import_block_register


\* ------------------------------------------------------------------------
\* Properties of block import
\* ------------------------------------------------------------------------
\* The step of import_block in which the store write fails and the call
\* returns.
StoreWriteFailed == imp.pc = "do_atomically" /\ imp'.pc = "done"

\* C1 (as stated): if the atomic store write of import_block fails after the
\* block was registered with fork choice and a persisted fork choice exists,
\* then at the return fork choice equals the persisted one, the write error
\* is what is returned, and the call added the block neither to the head
\* tracker nor to the announced block events.
C1_RollbackOnWriteFailure ==
    [][(StoreWriteFailed /\ persisted_fork_choice.present)
          => /\ fork_choice' = from_persisted(persisted_fork_choice)
             /\ imp'.result = "DBError"
             /\ head_tracker' = head_tracker
             /\ events' = events]_vars

\* C2 (as stated): whenever no thread holds the fork choice write lock, each
\* block known to the in-memory fork choice has its block and post-state in
\* the store.
C2_ForkChoiceWithinStore ==
    fc_lock = None => \A r \in Roots : contains_block(fork_choice, r) => r \in store

ChainSegments == UNION {[1..n -> Blocks] : n \in 1..MaxSegLen}

\* process_chain_segment returns: the locals are dropped, the result stays.
seg_return(result, imported_blocks, error) ==
    [seg EXCEPT !.pc = "done", !.i = 1, !.filtered_chain_segment = <<>>,
                !.blocks = <<>>, !.result = result,
                !.imported_blocks = imported_blocks, !.error = error]

\* ChainSegmentResult::Failed { imported_blocks, error }
Failed(error) == seg_return("Failed", seg.imported_blocks, error)

\* ChainSegmentResult::Successful { imported_blocks }
Successful == seg_return("Successful", seg.imported_blocks, None)

\* process_chain_segment is entered with chain_segment.
process_chain_segment(chain_segment) ==
    /\ seg.pc \in {"idle", "done"}
    /\ imp.pc \in {"idle", "done"}
    /\ seg' = [seg_idle EXCEPT !.pc = "filter", !.chain_segment = chain_segment,
                               !.before = [fork_choice |-> fork_choice, store |-> store,
                                           head_tracker |-> head_tracker]]
    /\ imp' = imp_idle
    /\ UNCHANGED <<chain_vars, pass, ee_lock, engine>>

\* The check of block `block` against its child in the segment: the error
\* of the first loop, or None.
linear_check(block, child) ==
    IF block # parent_root(child) THEN "NonLinearParentRoots"
    ELSE IF slot(child) <= slot(block) THEN "NonLinearSlots"
    ELSE None

\* relevancy_arm with the already-known block pushed like a relevant one.
relevancy_arm_pushing_known(relevancy) ==
    CASE relevancy = "Ok" -> "push"
      [] relevancy = "BlockIsAlreadyKnown" -> "push"
      [] relevancy = "BeaconChainError" -> "return"
      [] OTHER -> "break"

\* match check_block_relevancy(..): what the first loop does on each verdict.
relevancy_arm(relevancy) ==
    CASE relevancy = "Ok" -> "push"
      [] relevancy = "BlockIsAlreadyKnown" -> "continue"
      [] relevancy = "GenesisBlock" -> "continue"
      [] relevancy = "WouldRevertFinalizedSlot" -> "continue"
      [] relevancy = "NotFinalizedDescendant" -> "return"
      [] relevancy = "BeaconChainError" -> "return"
      [] OTHER -> "break"

\* One iteration of the first loop, on chain_segment[i]: the check against
\* the child, then check_block_relevancy. A relevant block is pushed, a known
\* block skipped, an error returned, and any other verdict ends the loop.
segment_filter ==
    /\ seg.pc = "filter"
    /\ fc_lock = None
    /\ LET cs == seg.chain_segment
           i == seg.i
           end_loop == [seg EXCEPT !.pc = "split_off", !.i = 1,
                                   !.filtered = seg.filtered_chain_segment]
       IN IF i > Len(cs) THEN seg' = end_loop
          ELSE IF i < Len(cs) /\ linear_check(cs[i], cs[i + 1]) # None
          THEN seg' = Failed(linear_check(cs[i], cs[i + 1]))
          ELSE \E relevancy \in check_block_relevancy(fork_choice, cs[i]) :
                 seg' = CASE relevancy_arm(relevancy) = "push" ->
                               [seg EXCEPT !.i = i + 1,
                                   !.filtered_chain_segment = Append(@, cs[i])]
                          [] relevancy_arm(relevancy) = "continue" ->
                               [seg EXCEPT !.i = i + 1]
                          [] relevancy_arm(relevancy) = "return" ->
                               Failed(relevancy)
                          [] OTHER -> end_loop
    /\ UNCHANGED <<chain_vars, imp, pass, ee_lock, engine>>

\* last_index with the whole filtered segment taken as one batch.
last_index_whole_segment(filtered_chain_segment) == Len(filtered_chain_segment)

\* last_index: the position (counted from 0) of the first block of the
\* filtered segment past the epoch of its first block, or its length.
last_index(filtered_chain_segment) ==
    LET start_epoch == epoch(slot(filtered_chain_segment[1]))
        later == {k \in 1..Len(filtered_chain_segment) :
                    epoch(slot(filtered_chain_segment[k])) > start_epoch}
    IN IF later = {} THEN Len(filtered_chain_segment)
       ELSE (CHOOSE k \in later : \A l \in later : k <= l) - 1

\* signature_verify_chain_segment(blocks, chain): the error it returns, or
\* None. The parent of the first block must be known, and every block of the
\* batch must carry valid signatures.
signature_verify_chain_segment(fc, blocks, errors) ==
    IF ~contains_block(fc, parent_root(blocks[1])) THEN "ParentUnknown"
    ELSE IF \E k \in 1..Len(blocks) : errors[blocks[k]] = "InvalidSignature"
    THEN "InvalidSignature"
    ELSE None

\* The head of the outer loop: the blocks of the first epoch are split off
\* and signature-verified together; with nothing left the call succeeds.
segment_split_off ==
    /\ seg.pc = "split_off"
    /\ fc_lock = None
    /\ IF seg.filtered_chain_segment = <<>> THEN seg' = Successful
       ELSE LET n == last_index(seg.filtered_chain_segment)
                blocks == SubSeq(seg.filtered_chain_segment, 1, n)
                rest == SubSeq(seg.filtered_chain_segment, n + 1,
                               Len(seg.filtered_chain_segment))
                error == signature_verify_chain_segment(fork_choice, blocks, block_error)
            IN IF error # None THEN seg' = Failed(error)
               ELSE \/ seg' = Failed("BeaconChainError")
                    \/ seg' = [seg EXCEPT !.pc = "import", !.blocks = blocks,
                                          !.filtered_chain_segment = rest]
    /\ UNCHANGED <<chain_vars, imp, pass, ee_lock, engine>>

\* The head of the inner loop: process_block on the next block of the batch.
segment_process_block ==
    /\ seg.pc = "import"
    /\ IF seg.blocks = <<>>
       THEN /\ seg' = [seg EXCEPT !.pc = "split_off"]
            /\ UNCHANGED imp
       ELSE /\ seg' = [seg EXCEPT !.pc = "process_block"]
            /\ imp' = [imp EXCEPT !.pc = "verify", !.block = Head(seg.blocks),
                                   !.wss_result = None,
                                  !.result = None]
    /\ UNCHANGED <<chain_vars, pass, ee_lock, engine>>

\* after_process_block with a failing block passed over instead of ending
\* the call.
after_process_block_passing_over(result) ==
    IF result = "Ok"
    THEN [seg EXCEPT !.pc = "import", !.blocks = Tail(@),
                     !.imported_blocks = @ + 1,
                     !.imported = Append(@, Head(seg.blocks))]
    ELSE [seg EXCEPT !.pc = "import", !.blocks = Tail(@)]

\* The segment after process_block returned `result` for the head of the
\* batch: Ok counts the block and goes on, an error ends the call.
after_process_block(result) ==
    IF result = "Ok"
    THEN [seg EXCEPT !.pc = "import", !.blocks = Tail(@),
                     !.imported_blocks = @ + 1,
                     !.imported = Append(@, Head(seg.blocks))]
    ELSE Failed(result)

\* match self.process_block(signature_verified_block)
segment_match ==
    /\ seg.pc = "process_block"
    /\ imp.pc = "done"
    /\ seg' = after_process_block(imp.result)
    /\ imp' = imp_idle
    /\ UNCHANGED <<chain_vars, pass, ee_lock, engine>>

process_chain_segment_step ==
    \/ segment_filter
    \/ segment_split_off
    \/ segment_process_block
    \/ segment_match


\* ------------------------------------------------------------------------
\* Properties of chain-segment import
\* ------------------------------------------------------------------------
\* Whether each block of the segment is the parent of the next, at a lower
\* slot.
Linear(cs) == \A k \in 1..(Len(cs) - 1) : linear_check(cs[k], cs[k + 1]) = None

\* The position of the first block of the segment that fails verification
\* (past the segment's end when there is none).
FirstInvalid(cs) ==
    LET bad == {k \in 1..Len(cs) : block_error[cs[k]] # None}
    IN IF bad = {} THEN Len(cs) + 1 ELSE CHOOSE k \in bad : \A l \in bad : k <= l

\* A call of process_chain_segment has returned that was given a chain of N
\* blocks, valid and unknown at the call, followed by an invalid block, and
\* that ended on the verification error of the invalid block.
ValidThenInvalid ==
    LET cs == seg.chain_segment
    IN /\ seg.pc = "done"
       /\ Linear(cs)
       /\ FirstInvalid(cs) <= Len(cs)
       /\ \A k \in 1..(FirstInvalid(cs) - 1) :
             ~contains_block(seg.before.fork_choice, cs[k])
       /\ seg.error = block_error[cs[FirstInvalid(cs)]]

\* The invalid block of the segment and the blocks after it are neither in
\* the store nor in fork choice.
InvalidSuffixAbsent ==
    \A k \in FirstInvalid(seg.chain_segment)..Len(seg.chain_segment) :
        /\ seg.chain_segment[k] \notin store
        /\ ~contains_block(fork_choice, seg.chain_segment[k])

\* C7 (as stated): for a segment of N valid, previously unknown blocks
\* followed by one invalid block, process_chain_segment returns Failed with
\* imported_blocks = N, the N blocks are in the store, and the invalid block
\* and the blocks after it are absent from the store and from fork choice.
C7_CountsAllValidBlocks ==
    ValidThenInvalid =>
        /\ seg.result = "Failed"
        /\ seg.imported_blocks = FirstInvalid(seg.chain_segment) - 1
        /\ \A k \in 1..(FirstInvalid(seg.chain_segment) - 1) :
              seg.chain_segment[k] \in store
        /\ InvalidSuffixAbsent

\* The number of the N valid blocks imported before the failure: all of
\* them when process_block rejects the invalid block, and those of the
\* epochs before the invalid block's epoch when the signature verification
\* of its epoch batch rejects it.
ImportedBeforeInvalid ==
    LET cs == seg.chain_segment
        n == FirstInvalid(cs) - 1
    IN IF block_error[cs[n + 1]] = "InvalidSignature"
       THEN Cardinality({k \in 1..n : epoch(slot(cs[k])) < epoch(slot(cs[n + 1]))})
       ELSE n

\* C7 (amended): for a segment of N valid, previously unknown blocks followed
\* by one invalid block, process_chain_segment returns Failed with
\* imported_blocks = the number of blocks it imported, which is N when the
\* invalid block is rejected by process_block and only the number of blocks
\* in earlier epochs when the invalid block fails the signature verification
\* of its epoch batch; the blocks counted are in the store, and the invalid
\* block and the blocks after it are absent from the store and fork choice.
C7_CountsImportedBlocks ==
    ValidThenInvalid =>
        /\ seg.result = "Failed"
        /\ seg.imported_blocks = ImportedBeforeInvalid
        /\ seg.imported = SubSeq(seg.chain_segment, 1, seg.imported_blocks)
        /\ \A k \in 1..seg.imported_blocks : seg.chain_segment[k] \in store
        /\ InvalidSuffixAbsent

\* C7 witness: a call given two valid unknown blocks and a block with an
\* invalid signature returned having imported fewer than the two.
C7_Witness ==
    /\ ValidThenInvalid
    /\ FirstInvalid(seg.chain_segment) = 3
    /\ seg.error = "InvalidSignature"
    /\ seg.imported_blocks = 1

\* C8 (as stated, internal errors aside): process_chain_segment on a segment
\* that is not linear returns Failed with NonLinearParentRoots or
\* NonLinearSlots and imported_blocks = 0, with fork choice, the store and
\* the head tracker as they were at the call.
C8_NonLinearRejected ==
    (seg.pc = "done" /\ ~Linear(seg.chain_segment) /\ seg.error # "BeaconChainError")
        => /\ seg.result = "Failed"
           /\ seg.error \in {"NonLinearParentRoots", "NonLinearSlots"}
           /\ seg.imported_blocks = 0
           /\ fork_choice = seg.before.fork_choice
           /\ store = seg.before.store
           /\ head_tracker = seg.before.head_tracker

\* C9: the blocks process_chain_segment has imported so far are, in segment
\* order, the first imported_blocks blocks of the filtered segment; a block
\* of the filtered segment past that prefix was not registered by the call;
\* and a call that failed in process_block stopped at the block right after
\* the prefix.
C9_ImportsContiguousPrefix ==
    /\ Len(seg.imported) = seg.imported_blocks
    /\ seg.imported_blocks <= Len(seg.filtered)
    /\ seg.imported = SubSeq(seg.filtered, 1, seg.imported_blocks)
    /\ \A k \in 1..Len(seg.imported) :
          seg.imported[k] \in store \cap head_tracker
    /\ \A k \in (seg.imported_blocks + 1)..Len(seg.filtered) :
          seg.filtered[k] \in head_tracker =>
              \/ seg.filtered[k] \in seg.before.head_tracker
              \/ /\ k = seg.imported_blocks + 1
                 /\ seg.pc = "process_block"
                 /\ imp.block = seg.filtered[k]

\* C9 witness: a call that filtered three blocks imported the first, failed
\* on the second and returned with the third untouched.
C9_Witness ==
    /\ seg.pc = "done"
    /\ seg.result = "Failed"
    /\ Len(seg.filtered) = 3
    /\ seg.imported_blocks = 1
    /\ seg.imported = <<seg.filtered[1]>>
    /\ seg.filtered[3] \notin head_tracker

\* The verification step of process_block on a block known to fork choice.
KnownBlockSubmitted ==
    /\ imp.pc = "verify" /\ imp' # imp
    /\ contains_block(fork_choice, imp.block)

\* The iteration of the first loop of process_chain_segment on a block known
\* to fork choice.
KnownBlockInSegment ==
    /\ seg.pc = "filter" /\ seg' # seg
    /\ seg.i <= Len(seg.chain_segment)
    /\ contains_block(fork_choice, seg.chain_segment[seg.i])

\* C10: a block whose root is already known leaves fork choice, the store,
\* the head tracker and the canonical head as they are: process_block
\* returns BlockIsAlreadyKnown for it, and process_chain_segment neither
\* pushes it to the filtered segment nor counts it in imported_blocks (no
\* block it counts was known at the call).
C10_KnownBlockChangesNothing ==
    [][/\ KnownBlockSubmitted
          => /\ imp'.pc = "done" /\ imp'.result = "BlockIsAlreadyKnown"
             /\ UNCHANGED <<fork_choice, store, head_tracker, canonical_head>>
       /\ KnownBlockInSegment
          => /\ UNCHANGED <<fork_choice, store, head_tracker, canonical_head>>
             /\ seg'.imported_blocks = seg.imported_blocks
             /\ seg'.pc # "done" =>
                   /\ seg'.filtered_chain_segment = seg.filtered_chain_segment
                   /\ seg'.i = seg.i + 1
       /\ \A k \in 1..Len(seg'.imported) :
             ~contains_block(seg'.before.fork_choice, seg'.imported[k])]_vars

\* C10 witness: a call of process_chain_segment returned Successful having
\* skipped a block known at the call and imported the block after it.
C10_Witness ==
    /\ seg.pc = "done"
    /\ seg.result = "Successful"
    /\ Len(seg.chain_segment) = 2
    /\ contains_block(seg.before.fork_choice, seg.chain_segment[1])
    /\ seg.imported = <<seg.chain_segment[2]>>
    /\ seg.imported_blocks = 1

\* ------------------------------------------------------------------------
\* find_reorg_slot
\* ------------------------------------------------------------------------
\* The slots a state reaches back to: its own slot, with the block root of
\* the snapshot, and the SlotsPerHistoricalRoot slots before it, which
\* rev_iter_block_roots yields from state.block_roots.
roots_window(state_slot) == Max(0, state_slot - SlotsPerHistoricalRoot)..state_slot

\* find_reorg_slot with the fallback as its only answer.
find_reorg_slot_finalized(old_state, new_state) ==
    start_slot(old_state.finalized_epoch)

\* find_reorg_slot(new_state, new_block_root) against the head snapshot
\* old_state. A state is [slot, block_roots, finalized_epoch], block_roots
\* being the root at each slot of roots_window(slot): a skipped slot holds
\* the root of the closest block before it. Both iterators are skipped down
\* to lowest_slot and walked in lock-step while both return values; the
\* first slot with the same root on both is the result, the start slot of
\* the old head's finalized epoch when there is none.
find_reorg_slot(old_state, new_state) ==
    LET lowest_slot == Min(new_state.slot, old_state.slot)
        walked == {s \in DOMAIN old_state.block_roots \cap DOMAIN new_state.block_roots :
                      s <= lowest_slot}
        common == {s \in walked : old_state.block_roots[s] = new_state.block_roots[s]}
    IN IF common # {}
       THEN CHOOSE s \in common : \A u \in common : u <= s
       ELSE start_slot(old_state.finalized_epoch)

\* The post-state of block r, as far as find_reorg_slot reads it.
head_state(r) ==
    [slot |-> slot(r),
     block_roots |-> [s \in roots_window(slot(r)) |-> ancestor_at_slot(r, s)],
     finalized_epoch |-> finalized_epoch(r)]

\* reorg_distance = current_head.slot.saturating_sub(slot), `slot` being
\* what find_reorg_slot finds between the head snapshot `head` and the new
\* head `new`.
reorg_distance(current_head, head, new) ==
    saturating_sub(slot(current_head), find_reorg_slot(head_state(head), head_state(new)))

SetMax(S) == CHOOSE x \in S : \A y \in S : y <= x

SetMin(S) == CHOOSE x \in S : \A y \in S : x <= y

\* Two chains that share their blocks up to the block of slot ancestor_slot
\* and diverge after it: the chain named `chain` has its own blocks in the
\* slots `slots`, all after ancestor_slot. The root the chain holds at slot
\* s is that of its closest block not after s: a skipped slot holds the
\* root of the closest prior block.
chain_root(chain, ancestor_slot, slots, s) ==
    LET own == {b \in slots : b <= s}
    IN IF own # {} THEN <<chain, SetMax(own)>>
       ELSE <<"common", Min(s, ancestor_slot)>>

\* The post-state of the head (last block) of such a chain, as far as
\* find_reorg_slot reads it.
chain_state(chain, ancestor_slot, slots, fin_epoch) ==
    [slot |-> SetMax(slots),
     block_roots |-> [s \in roots_window(SetMax(slots)) |->
                        chain_root(chain, ancestor_slot, slots, s)],
     finalized_epoch |-> fin_epoch]

\* The pairs of forked chains: a common ancestor, the block slots of the
\* old and of the new chain after it, and the finalized epoch of the old
\* head, which does not start after the common ancestor (no re-org goes
\* through a finalized slot).
ForkedChains ==
    {[pc |-> "forked", ancestor_slot |-> S, old_slots |-> O, new_slots |-> N,
      finalized_epoch |-> F, distance |-> 0] :
        S \in 0..(MaxSlot - 1), O \in SUBSET (1..MaxSlot), N \in SUBSET (1..MaxSlot),
        F \in 0..epoch(MaxSlot)}

\* A chain at genesis, before the merge, and a pair of forked chains whose
\* old head is the head of the moment.
InitReorg ==
    /\ InitThreads
    /\ InitServices
    /\ forks \in {c \in ForkedChains :
                     /\ c.old_slots # {} /\ c.new_slots # {}
                     /\ \A b \in c.old_slots \cup c.new_slots : b > c.ancestor_slot
                     /\ start_slot(c.finalized_epoch) <= c.ancestor_slot}
    /\ bellatrix = FALSE
    /\ block_error = [r \in Blocks |->
                        IF later_than_parent(r) THEN None ELSE "BlockIsNotLaterThanParent"]
    /\ event_handler = TRUE
    /\ op_pool = 0
    /\ finalization = no_entries
    /\ fork_choice = genesis_fork_choice
    /\ persisted_fork_choice = to_persisted(genesis_fork_choice)
    /\ persisted_beacon_chain = make_persisted_head({GenesisRoot})
    /\ store = {GenesisRoot}
    /\ head_tracker = {GenesisRoot}
    /\ events = {}
    /\ early_attester_cache = NoRoot
    /\ canonical_head = GenesisRoot

\* The re-org depth of fork_choice_internal for the switch from the head of
\* the old chain to the head of the new one:
\* reorg_distance = current_head.slot.saturating_sub(find_reorg_slot(..)).
detect_reorg ==
    /\ forks.pc = "forked"
    /\ LET old_state == chain_state("old", forks.ancestor_slot, forks.old_slots,
                                    forks.finalized_epoch)
           new_state == chain_state("new", forks.ancestor_slot, forks.new_slots,
                                    forks.finalized_epoch)
       IN forks' = [forks EXCEPT
                      !.pc = "reported",
                      !.distance = saturating_sub(old_state.slot,
                                                  find_reorg_slot(old_state, new_state))]
    /\ UNCHANGED <<fork_choice, fc_lock, persisted_fork_choice, store, head_tracker,
                   events, early_attester_cache, canonical_head, bellatrix, block_error,
                   persisted_beacon_chain, op_pool, finalization, shutdown, sse, event_handler,
                   service_vars,
                   imp, seg, pass, ee_lock, engine>>

\* ------------------------------------------------------------------------
\* fork_choice_internal (head selection), per thread t
\* ------------------------------------------------------------------------
\* A head-selection pass returns `result`: a nested pass (run by
\* process_invalid_execution_payload, which only logs its error) returns
\* into the invalidation pass that called it, the outermost one ends the
\* call of the thread. The locals of the pass are dropped; whether the pass
\* swapped the head stays on record.
pass_return(t, result) ==
    IF pass[t].depth > 0
    THEN [pass EXCEPT ![t].pc = "justified_block", ![t].depth = @ - 1,
                      ![t].root = GenesisRoot, ![t].old = GenesisRoot,
                      ![t].is_reorg = FALSE, ![t].reorg_distance = 0,
                      ![t].finalized_block = "Irrelevant"]
    ELSE [pass EXCEPT ![t].pc = "done", ![t].result = result,
                      ![t].root = GenesisRoot, ![t].old = GenesisRoot,
                      ![t].is_reorg = FALSE, ![t].reorg_distance = 0,
                      ![t].finalized_block = "Irrelevant"]

\* update_execution_engine_forkchoice_async returns `result`: to the caller
\* of thread "el" for its outermost call, or into the pass that called it,
\* which only logs an error. The locals of the call are dropped.
ee_return(t, result) ==
    IF t = "el" /\ pass[t].depth = 0
    THEN [pass EXCEPT ![t].pc = "done", ![t].result = result,
                      ![t].params = GenesisRoot, ![t].response = no_response]
    ELSE [pass EXCEPT ![t].pc = "prepare_beacon_proposer",
                      ![t].params = GenesisRoot, ![t].response = no_response]

\* self.fork_choice() is called on thread t.
fork_choice_at_slot(t) ==
    /\ pass[t].pc \in {"idle", "done"}
    /\ pass' = [pass EXCEPT ![t] = [pass_idle EXCEPT !.pc = "get_head"]]
    /\ UNCHANGED <<chain_vars, imp, seg, ee_lock, engine>>

\* The head root and the finalized block are read under the fork choice lock.
fork_choice_get_head(t) ==
    /\ pass[t].pc = "get_head"
    /\ fc_lock = None
    /\ \/ /\ pass' = pass_return(t, "ForkChoiceError")
          /\ UNCHANGED fork_choice
       \/ \E beacon_block_root \in get_head(fork_choice) :
             /\ fork_choice' = [fork_choice EXCEPT !.head = beacon_block_root]
             /\ pass' = [pass EXCEPT
                           ![t].pc = "head_info", ![t].root = beacon_block_root,
                           ![t].finalized_block =
                               get_finalized_block(fork_choice).execution_status]
    /\ UNCHANGED <<fc_lock, persisted_fork_choice, store, head_tracker, events,
                   early_attester_cache, canonical_head, imp, seg, ee_lock, engine, bellatrix, block_error, side_vars>>

\* head_unchanged with the comparison never finding the head unchanged.
head_unchanged_never(beacon_block_root, current_head) == FALSE

\* if beacon_block_root == current_head.block_root
head_unchanged(beacon_block_root, current_head) == beacon_block_root = current_head

\* The ShutdownReason::Failure messages.
INVALID_FINALIZED_PAYLOAD_SHUTDOWN_REASON ==
    "Finalized block has an invalid execution payload."

INVALID_JUSTIFIED_PAYLOAD_SHUTDOWN_REASON ==
    "Justified block has an invalid execution payload."

\* let current_head = self.head_info()?; exit early if the head is
\* unchanged; a finalized block marked Invalid requests the shutdown and
\* ends the pass (with the error of try_send when the request cannot be
\* sent).
fork_choice_head_info(t) ==
    /\ pass[t].pc = "head_info"
    /\ \/ /\ pass' = pass_return(t, "CanonicalHeadLockTimeout")
          /\ UNCHANGED shutdown
       \/ /\ head_unchanged(pass[t].root, canonical_head)
          /\ pass' = pass_return(t, "Ok")
          /\ UNCHANGED shutdown
       \/ /\ ~head_unchanged(pass[t].root, canonical_head)
          /\ pass[t].finalized_block = "Invalid"
          /\ shutdown' = shutdown \cup {INVALID_FINALIZED_PAYLOAD_SHUTDOWN_REASON}
          /\ \/ pass' = pass_return(t, "InvalidFinalizedPayload")
             \/ pass' = pass_return(t, "InvalidFinalizedPayloadShutdownError")
       \/ /\ ~head_unchanged(pass[t].root, canonical_head)
          /\ pass[t].finalized_block # "Invalid"
          /\ pass' = [pass EXCEPT ![t].pc = "new_head", ![t].old = canonical_head]
          /\ UNCHANGED shutdown
    /\ UNCHANGED <<fork_choice, fc_lock, persisted_fork_choice, store, head_tracker,
                   events, early_attester_cache, canonical_head, bellatrix, block_error,
                   persisted_beacon_chain, op_pool, finalization, sse, event_handler, forks,
                   service_vars,
                   imp, seg, ee_lock, engine>>

\* is_reorg: the new head's state does not hold the old head's root at the
\* old head's slot, i.e. the new head does not descend from the old head.
is_reorg(old, new) == ~is_descendant(old, new)

\* The check on the finalized epoch of the candidate head.
reverted_finalized_epoch(old, new) == finalized_epoch(new) < finalized_epoch(old)

\* The new head snapshot is loaded from the store, the re-org is detected
\* (its depth found against the canonical head of the moment, or left 0 when
\* find_reorg_slot fails; the depth is kept for the ChainReorg event only)
\* and a head with a lesser finalized epoch is refused.
fork_choice_new_head(t) ==
    /\ pass[t].pc = "new_head"
    /\ \/ /\ pass[t].root \notin store
          /\ pass' = pass_return(t, "MissingBeaconBlock")
       \/ /\ pass[t].root \in store
          /\ reverted_finalized_epoch(pass[t].old, pass[t].root)
          /\ pass' = pass_return(t, "RevertedFinalizedEpoch")
       \/ /\ pass[t].root \in store
          /\ ~reverted_finalized_epoch(pass[t].old, pass[t].root)
          /\ \E distance \in
                IF is_reorg(pass[t].old, pass[t].root) /\ event_handler
                THEN {0, reorg_distance(pass[t].old, canonical_head, pass[t].root)}
                ELSE {0} :
                pass' = [pass EXCEPT ![t].pc = "clear_cache",
                                     ![t].is_reorg = is_reorg(pass[t].old, pass[t].root),
                                     ![t].reorg_distance = distance]
    /\ UNCHANGED <<chain_vars, imp, seg, ee_lock, engine>>

\* fork_choice_clear_cache with the cache left as it is.
fork_choice_keep_cache(t) ==
    /\ pass[t].pc = "clear_cache"
    /\ pass' = [pass EXCEPT ![t].pc = "canonical_head"]
    /\ UNCHANGED <<chain_vars, imp, seg, ee_lock, engine>>

\* self.early_attester_cache.clear();
fork_choice_clear_cache(t) ==
    /\ pass[t].pc = "clear_cache"
    /\ early_attester_cache' = NoRoot
    /\ pass' = [pass EXCEPT ![t].pc = "canonical_head"]
    /\ UNCHANGED <<fork_choice, fc_lock, persisted_fork_choice, store, head_tracker,
                   events, canonical_head, imp, seg, ee_lock, engine, bellatrix, block_error, side_vars>>

\* *self.canonical_head.try_write_for(HEAD_LOCK_TIMEOUT)? = new_head;
fork_choice_set_head(t) ==
    /\ pass[t].pc = "canonical_head"
    /\ \/ /\ pass' = pass_return(t, "CanonicalHeadLockTimeout")
          /\ UNCHANGED canonical_head
       \/ /\ canonical_head' = pass[t].root
          /\ pass' = [pass EXCEPT ![t].pc = "persist", ![t].swapped = TRUE]
    /\ UNCHANGED <<fork_choice, fc_lock, persisted_fork_choice, store, head_tracker,
                   events, early_attester_cache, imp, seg, ee_lock, engine, bellatrix, block_error, side_vars>>

\* The pass goes on to update_execution_engine_forkchoice_blocking.
pass_goto_engine(t) ==
    [pass EXCEPT ![t].pc = "update_execution_engine", ![t].root = GenesisRoot,
                 ![t].old = GenesisRoot, ![t].is_reorg = FALSE,
                 ![t].reorg_distance = 0]

is_epoch_transition(old, new) == epoch(slot(old)) < epoch(slot(new))

\* should_persist with the epoch transition left out.
should_persist_on_reorg(epoch_transition, reorg) == reorg

\* if is_epoch_transition || is_reorg
should_persist(epoch_transition, reorg) == epoch_transition \/ reorg

\* if new_finalized_checkpoint.epoch != old_finalized_checkpoint.epoch
finalized_epoch_changed(old, new) == finalized_epoch(new) # finalized_epoch(old)

\* How the work after the swap may end, up to the events: whether the head
\* tracker and fork choice were persisted, whether the operation pool was
\* pruned for the current epoch, and the error returned (None to go on).
\* persist_head_and_fork_choice may fail (nothing is written), self.epoch()
\* may fail after it; on a change of the finalized epoch the finalization
\* work may fail before or after op_pool.prune_all.
persist_outcomes(persists) ==
    IF persists
    THEN {[persisted |-> FALSE, pruned |-> FALSE, finalization |-> "none",
           error |-> "DBError"],
          [persisted |-> TRUE, pruned |-> FALSE, finalization |-> "none",
           error |-> "BeaconChainError"],
          [persisted |-> TRUE, pruned |-> TRUE, finalization |-> "none",
           error |-> None]}
    ELSE {[persisted |-> FALSE, pruned |-> FALSE, finalization |-> "none",
           error |-> None]}

after_swap_outcomes(persists, finalizes) ==
    LET failed == {o \in persist_outcomes(persists) : o.error # None}
        passed == {o \in persist_outcomes(persists) : o.error = None}
    IN failed \cup
       (IF finalizes
        THEN UNION {{[o EXCEPT !.error = "BeaconChainError"],
                     [o EXCEPT !.finalization = "begun",
                               !.error = "BeaconChainError"],
                     [o EXCEPT !.pruned = TRUE, !.finalization = "begun",
                               !.error = "BeaconChainError"],
                     [o EXCEPT !.pruned = TRUE, !.finalization = "done"]} :
                       o \in passed}
        ELSE passed)

\* self.observed_block_producers.write().prune(finalized_slot): the entries
\* up to the finalized slot go; slot 0 prunes nothing.
observed_block_producers_prune(fin, finalized_slot) ==
    IF finalized_slot = 0 THEN fin
    ELSE [fin EXCEPT !.observed_block_producers = {s \in @ : s > finalized_slot}]

\* self.attester_cache.prune_below(epoch): the entries of earlier epochs go.
prune_below(fin, e) == [fin EXCEPT !.attester_cache = {x \in @ : x >= e}]

\* after_finalization(&head.beacon_state, ..) with the head read again at
\* that point, as far as it got: fork_choice.prune() under the fork choice
\* lock (which removes nothing from a tree below its prune threshold) and
\* the observed block producers first, the attester cache last.
finalization_pruned(fin, head, progress) ==
    LET begun == observed_block_producers_prune(fin, start_slot(finalized_epoch(head)))
    IN IF progress = "none" THEN fin
       ELSE IF progress = "begun" THEN begun
       ELSE prune_below(begun, finalized_epoch(head))

\* The Head event, and the ChainReorg event for a re-org, of the pass of t.
head_events(t) ==
    [block |-> pass[t].root,
     old_head_block |-> IF pass[t].is_reorg THEN pass[t].old ELSE NoRoot,
     depth |-> IF pass[t].is_reorg THEN pass[t].reorg_distance ELSE 0,
     epoch_transition |-> is_epoch_transition(pass[t].old, pass[t].root)]

\* After the swap: persist_head_and_fork_choice and the pruning of the
\* operation pool on an epoch transition or a re-org, the finalization work
\* on a change of the finalized epoch, then the Head and ChainReorg events;
\* an error of the persistence or of the finalization returns it.
fork_choice_persist(t) ==
    /\ pass[t].pc = "persist"
    /\ LET persists == should_persist(is_epoch_transition(pass[t].old, pass[t].root),
                                      pass[t].is_reorg)
           finalizes == finalized_epoch_changed(pass[t].old, pass[t].root)
       IN /\ (persists \/ finalizes) => fc_lock = None
          /\ \E o \in after_swap_outcomes(persists, finalizes) :
                /\ persisted_fork_choice' =
                      IF o.persisted THEN to_persisted(fork_choice)
                      ELSE persisted_fork_choice
                /\ persisted_beacon_chain' =
                      IF o.persisted THEN make_persisted_head(head_tracker)
                      ELSE persisted_beacon_chain
                /\ op_pool' = IF o.pruned THEN current_epoch ELSE op_pool
                /\ finalization' = finalization_pruned(finalization, canonical_head,
                                                       o.finalization)
                /\ sse' = IF o.error = None /\ event_handler THEN head_events(t) ELSE sse
                /\ pass' = IF o.error = None THEN pass_goto_engine(t)
                           ELSE pass_return(t, o.error)
    /\ UNCHANGED <<fork_choice, fc_lock, store, head_tracker, events,
                   early_attester_cache, canonical_head, imp, seg, ee_lock, engine,
                   bellatrix, block_error, shutdown, event_handler, forks,
                   service_vars>>

\* prepare_beacon_proposer_blocking: its failure is logged; the pass is Ok.
fork_choice_prepare_proposer(t) ==
    /\ pass[t].pc = "prepare_beacon_proposer"
    /\ pass' = pass_return(t, "Ok")
    /\ UNCHANGED <<chain_vars, imp, seg, ee_lock, engine>>

fork_choice_internal(t) ==
    \/ fork_choice_get_head(t)
    \/ fork_choice_head_info(t)
    \/ fork_choice_new_head(t)
    \/ fork_choice_clear_cache(t)
    \/ fork_choice_set_head(t)
    \/ fork_choice_persist(t)
    \/ fork_choice_prepare_proposer(t)


\* ------------------------------------------------------------------------
\* update_execution_engine_forkchoice_async and
\* process_invalid_execution_payload, per thread t
\* ------------------------------------------------------------------------
\* PayloadStatus of a forkchoiceUpdated response, with the latest valid hash
\* of an Invalid response as the root of the block that carries it (None
\* when the engine gives none or one that no known block carries).
PayloadStatus ==
    {[status |-> st, latest_valid_hash |-> NoRoot] :
        st \in {"Valid", "Syncing", "Accepted", "InvalidBlockHash", "InvalidTerminalBlock"}}
    \cup {[status |-> "Invalid", latest_valid_hash |-> h] : h \in Roots \cup {NoRoot}}

is_invalid_response(status) ==
    status.status \in {"Invalid", "InvalidBlockHash", "InvalidTerminalBlock"}

\* update_execution_engine_forkchoice_async is called on thread "el".
update_execution_engine_forkchoice_async ==
    /\ pass["el"].pc \in {"idle", "done"}
    /\ pass' = [pass EXCEPT !["el"] = [pass_idle EXCEPT !.pc = "update_execution_engine"]]
    /\ UNCHANGED <<chain_vars, imp, seg, ee_lock, engine>>

\* Number of blocks fork choice knows.
known_blocks(fc) == Cardinality({r \in Roots : contains_block(fc, r)})

\* No block of fork choice carries an execution payload: the chain before
\* the merge transition block, where no invalidation can succeed.
no_payloads(fc) == \A r \in Roots : contains_block(fc, r) => fc.nodes[r] = "Irrelevant"

\* How deep the invalidation passes are followed, and how many
\* forkchoiceUpdated reads: MaxNesting and MaxNotify, and past the number of
\* known blocks on a chain without payloads.
nesting_bound(fc) == IF no_payloads(fc) THEN known_blocks(fc) + 2 ELSE MaxNesting

notify_bound(fc) == IF no_payloads(fc) THEN known_blocks(fc) + 3 ELSE MaxNotify

\* The early returns before the ordering lock (the slot is prior to
\* Bellatrix, no execution layer, a clock error), or the call goes on to
\* take execution_engine_forkchoice_lock.
ee_enter(t) ==
    /\ pass[t].pc = "update_execution_engine"
    /\ \/ pass' = ee_return(t, "Skipped")
       \/ /\ bellatrix
          /\ engine.reads < notify_bound(fork_choice)
          /\ pass' = [pass EXCEPT ![t].pc = "forkchoice_lock"]
    /\ UNCHANGED <<chain_vars, imp, seg, ee_lock, engine>>

\* forkchoice_lock_free with the ordering lock granted whoever holds it.
forkchoice_lock_ignored(holder) == TRUE

\* Whether a caller may take the ordering lock held by `holder`.
forkchoice_lock_free(holder) == holder = None

\* let forkchoice_lock = execution_layer.execution_engine_forkchoice_lock().await;
ee_take_lock(t) ==
    /\ pass[t].pc = "forkchoice_lock"
    /\ forkchoice_lock_free(ee_lock)
    /\ ee_lock' = t
    /\ pass' = [pass EXCEPT ![t].pc = "get_forkchoice_update_parameters"]
    /\ UNCHANGED <<chain_vars, imp, seg, engine>>

\* forkchoice_read_guard with the read guard of fork choice kept by the
\* caller until the response of the engine.
forkchoice_read_guard_kept(t) == t

\* The holder of the fork choice lock once the parameters are read by t:
\* the guard of self.fork_choice.read() is a temporary of the statement.
forkchoice_read_guard(t) == None

\* self.fork_choice.read().get_forkchoice_update_parameters(), under the
\* ordering lock; the fork choice lock is released at once. A head without
\* an execution hash may end the call here (the ordering lock is dropped).
ee_read_parameters(t) ==
    /\ pass[t].pc = "get_forkchoice_update_parameters"
    /\ fc_lock = None
    /\ \/ /\ pass' = ee_return(t, "Skipped")
          /\ ee_lock' = IF ee_lock = t THEN None ELSE ee_lock
          /\ UNCHANGED <<engine, fc_lock>>
       \/ /\ pass' = [pass EXCEPT ![t].pc = "notify_forkchoice_updated",
                                  ![t].params = get_forkchoice_update_parameters(fork_choice),
                                  ![t].ticket = engine.reads + 1]
          /\ engine' = [engine EXCEPT !.reads = @ + 1]
          /\ fc_lock' = forkchoice_read_guard(t)
          /\ UNCHANGED ee_lock
    /\ UNCHANGED <<fork_choice, persisted_fork_choice, store, head_tracker, events,
                   early_attester_cache, canonical_head, bellatrix, block_error,
                   side_vars, imp, seg>>

\* execution_layer.notify_forkchoice_updated(..) is sent: the call is in
\* flight at the engine.
ee_notify(t) ==
    /\ pass[t].pc = "notify_forkchoice_updated"
    /\ engine' = [engine EXCEPT !.received = Append(@, pass[t].ticket),
                                !.in_flight = @ + 1]
    /\ pass' = [pass EXCEPT ![t].pc = "await_response", ![t].ticket = 0]
    /\ UNCHANGED <<chain_vars, imp, seg, ee_lock>>

\* The response (or a transport error) arrives and drop(forkchoice_lock).
\* The engine may answer anything; nesting of invalidation passes is capped.
ee_response(t) ==
    /\ pass[t].pc = "await_response"
    /\ engine' = [engine EXCEPT !.in_flight = @ - 1]
    /\ ee_lock' = IF ee_lock = t THEN None ELSE ee_lock
    /\ fc_lock' = IF fc_lock = t THEN None ELSE fc_lock
    /\ \/ pass' = [pass EXCEPT ![t].pc = "response",
                               ![t].response = [status |-> "Error", latest_valid_hash |-> NoRoot]]
       \/ \E status \in PayloadStatus :
             /\ is_invalid_response(status) => pass[t].depth < nesting_bound(fork_choice)
             /\ pass' = [pass EXCEPT ![t].pc = "response", ![t].response = status]
    /\ UNCHANGED <<fork_choice, persisted_fork_choice, store, head_tracker, events,
                   early_attester_cache, canonical_head, bellatrix, block_error,
                   side_vars, imp, seg>>

\* invalidation_operation with the latest valid hash of the response dropped.
invalidation_operation_head_only(head_block_root, status) ==
    InvalidateOne(head_block_root)

\* The InvalidationOperation an invalid response leads to.
invalidation_operation(head_block_root, status) ==
    IF status.status = "Invalid"
    THEN InvalidateMany(head_block_root, status.latest_valid_hash)
    ELSE InvalidateOne(head_block_root)

\* match forkchoice_updated_response: Valid marks the head valid in fork
\* choice, Syncing and Accepted do nothing, an error is returned, and the
\* invalid responses start process_invalid_execution_payload, whose first
\* act is fork_choice.write().on_invalid_execution_payload(op).
ee_handle_response(t) ==
    /\ pass[t].pc = "response"
    /\ \/ /\ pass[t].response.status = "Error"
          /\ pass' = ee_return(t, "ExecutionForkChoiceUpdateFailed")
          /\ UNCHANGED fork_choice
       \/ /\ pass[t].response.status \in {"Syncing", "Accepted"}
          /\ pass' = ee_return(t, "Ok")
          /\ UNCHANGED fork_choice
       \/ /\ pass[t].response.status = "Valid"
          /\ fc_lock = None
          /\ fork_choice' = on_valid_execution_payload(fork_choice, pass[t].params)
          /\ pass' = ee_return(t, "Ok")
       \/ /\ is_invalid_response(pass[t].response)
          /\ fc_lock = None
          /\ fork_choice' = on_invalid_execution_payload(
                                fork_choice,
                                invalidation_operation(pass[t].params, pass[t].response))
          /\ pass' = [pass EXCEPT ![t].pc = "get_head", ![t].depth = @ + 1,
                                  ![t].params = GenesisRoot, ![t].response = no_response]
    /\ UNCHANGED <<fc_lock, persisted_fork_choice, store, head_tracker, events,
                   early_attester_cache, canonical_head, imp, seg, ee_lock, engine, bellatrix, block_error, side_vars>>

\* process_invalid_execution_payload_result with the justified block never
\* found Invalid.
process_invalid_execution_payload_unchecked(justified_block) == "Ok"

\* What process_invalid_execution_payload returns once it has read the
\* justified block.
process_invalid_execution_payload_result(justified_block) ==
    IF justified_block.execution_status = "Invalid"
    THEN "JustifiedPayloadInvalid" ELSE "Ok"

\* invalid_response_result with the error of the invalidation pass dropped.
invalid_response_result_dropping_error(invalidation_result) ==
    "ExecutionForkChoiceUpdateInvalid"

\* What update_execution_engine_forkchoice_async returns after the
\* invalidation pass of an invalid response: the error of the pass (`??`),
\* or ExecutionForkChoiceUpdateInvalid.
invalid_response_result(invalidation_result) ==
    IF invalidation_result = "Ok" THEN "ExecutionForkChoiceUpdateInvalid"
    ELSE invalidation_result

\* The end of process_invalid_execution_payload, after the nested head
\* selection: the justified block is read under the fork choice lock; when
\* it is Invalid the shutdown is requested (a failure to send the request is
\* logged) and JustifiedPayloadInvalid returned, otherwise Ok; the update of
\* the execution engine then returns.
ee_justified_block(t) ==
    /\ pass[t].pc = "justified_block"
    /\ fc_lock = None
    /\ LET result == process_invalid_execution_payload_result(
                         get_justified_block(fork_choice))
       IN /\ shutdown' = IF result = "Ok" THEN shutdown
                         ELSE shutdown \cup {INVALID_JUSTIFIED_PAYLOAD_SHUTDOWN_REASON}
          /\ pass' = ee_return(t, invalid_response_result(result))
    /\ UNCHANGED <<fork_choice, fc_lock, persisted_fork_choice, store, head_tracker,
                   events, early_attester_cache, canonical_head, bellatrix, block_error,
                   persisted_beacon_chain, op_pool, finalization, sse, event_handler, forks,
                   service_vars,
                   imp, seg, ee_lock, engine>>

execution_engine_update(t) ==
    \/ ee_enter(t)
    \/ ee_take_lock(t)
    \/ ee_read_parameters(t)
    \/ ee_notify(t)
    \/ ee_response(t)
    \/ ee_handle_response(t)
    \/ ee_justified_block(t)

\* ------------------------------------------------------------------------
\* Properties of head selection and of the execution-engine handshake
\* ------------------------------------------------------------------------
\* C4: notify_forkchoice_updated calls are issued one at a time and in the
\* order in which their parameters were read from fork choice: at most one
\* call is in flight, the engine received the calls in the order of their
\* reads, and a call that has read its parameters and not yet notified is
\* the latest reader, every earlier one having been received.
C4_OrderedNotifications ==
    /\ engine.in_flight <= 1
    /\ \A i, j \in 1..Len(engine.received) :
          i < j => engine.received[i] < engine.received[j]
    /\ \A t \in EngineThreads :
          pass[t].pc = "notify_forkchoice_updated"
              => /\ pass[t].ticket = engine.reads
                 /\ engine.in_flight = 0
                 /\ \A i \in 1..Len(engine.received) :
                       engine.received[i] < pass[t].ticket

\* C4 witness: the engine has received two calls, the second is in flight,
\* and another caller waits for the ordering lock.
C4_Witness ==
    /\ Len(engine.received) = 2
    /\ engine.in_flight = 1
    /\ \E t \in EngineThreads : pass[t].pc = "forkchoice_lock"

\* C5 (as stated): across head-selection passes the finalized epoch of the
\* canonical head never decreases: a pass whose candidate head has a lower
\* finalized epoch than the current head returns RevertedFinalizedEpoch and
\* leaves the canonical head as it is.
C5_FinalizedEpochNeverDecreases ==
    [][/\ finalized_epoch(canonical_head') >= finalized_epoch(canonical_head)
       /\ \A t \in HeadThreads :
             (/\ pass[t].pc = "new_head" /\ pass'[t] # pass[t]
              /\ finalized_epoch(pass[t].root) < finalized_epoch(canonical_head))
                 => /\ pass'[t].result = "RevertedFinalizedEpoch"
                    /\ canonical_head' = canonical_head]_vars

\* Whether some block of fork choice fc is Valid below an Invalid ancestor.
ValidBelowInvalid(fc) ==
    \E r \in Blocks : fc.nodes[r] = "Valid" /\ ~no_invalid_ancestor(fc, r)

\* The step in which thread t handles an Invalid response for the head C of
\* an Optimistic chain A -> B -> C whose latest valid hash is that of A.
InvalidatesChain(t, A, B, C) ==
    /\ pass[t].pc = "response" /\ pass'[t] # pass[t]
    /\ pass[t].response.status = "Invalid"
    /\ pass[t].params = C /\ B \in Blocks /\ A \in Blocks
    /\ pass[t].response.latest_valid_hash = A
    /\ \A r \in {A, B, C} : fork_choice.nodes[r] = "Optimistic"

head_effects == <<canonical_head, early_attester_cache, persisted_fork_choice,
                  persisted_beacon_chain, op_pool, finalization, sse, engine, ee_lock, shutdown>>

\* The step of thread t in which the head root of get_head is compared with
\* the head read by head_info (which did not time out) and found equal.
HeadFoundUnchanged(t) ==
    /\ pass[t].pc = "head_info" /\ pass'[t] # pass[t]
    /\ pass[t].root = canonical_head
    /\ ~(pass'[t].pc = "done" /\ pass'[t].result = "CanonicalHeadLockTimeout")
    /\ ~(pass'[t].pc = "justified_block")

\* C11: a head-selection pass whose get_head root equals the canonical head
\* root returns Ok at once, without swapping the head; from its start to its
\* return it changes neither the canonical head, the early attester cache,
\* the persisted head and fork choice nor the operation pool, registers no
\* Head or ChainReorg event and sends nothing to the execution engine.
C11_UnchangedHeadIsNoOp ==
    [][\A t \in PassThreads :
          /\ HeadFoundUnchanged(t)
                => /\ pass'[t].pc = "done" /\ pass'[t].result = "Ok"
                   /\ ~pass'[t].swapped
                   /\ UNCHANGED head_effects
          /\ (pass[t].pc = "get_head" /\ pass'[t] # pass[t])
                => UNCHANGED head_effects]_vars

\* C11 witness: after a pass swapped the head to a block of a later epoch
\* (persisting, pruning and announcing it), a pass found that head unchanged
\* and returned Ok without swapping.
C11_Witness ==
    /\ \E t \in HeadThreads :
          pass[t].pc = "done" /\ pass[t].result = "Ok" /\ ~pass[t].swapped
    /\ canonical_head # GenesisRoot
    /\ fork_choice.head = canonical_head
    /\ sse.block = canonical_head
    /\ op_pool = current_epoch
    /\ persisted_beacon_chain = make_persisted_head(head_tracker)

\* The step of thread t in which a head-selection pass reads the head root
\* and the finalized block while the finalized block of fork choice is
\* Invalid.
ReadsInvalidFinalized(t) ==
    /\ pass[t].pc = "get_head" /\ pass'[t] # pass[t]
    /\ get_finalized_block(fork_choice).execution_status = "Invalid"

\* C12 (as stated): every head-selection pass in which the finalized block
\* of fork choice is Invalid requests a process shutdown, returns
\* InvalidFinalizedPayload and does not change the canonical head: the pass
\* that reads an Invalid finalized block goes on to the check of it, and
\* the check requests the shutdown and returns InvalidFinalizedPayload.
C12_InvalidFinalizedShutsDown ==
    [][\A t \in PassThreads :
          /\ ReadsInvalidFinalized(t)
                => /\ pass'[t].pc = "head_info"
                   /\ pass'[t].finalized_block = "Invalid"
          /\ (/\ pass[t].pc = "head_info" /\ pass'[t] # pass[t]
              /\ pass[t].finalized_block = "Invalid" /\ pass[t].depth = 0)
                => /\ pass'[t].pc = "done"
                   /\ pass'[t].result = "InvalidFinalizedPayload"
                   /\ INVALID_FINALIZED_PAYLOAD_SHUTDOWN_REASON \in shutdown'
                   /\ canonical_head' = canonical_head]_vars

\* The update called on thread "el" (not one nested in a head-selection
\* pass, whose result is only logged) returns `result` in this step.
UpdateReturns(t, result) ==
    (t = "el" /\ pass[t].depth = 0)
        => pass'[t].pc = "done" /\ pass'[t].result = result

\* The step of thread t in which process_invalid_execution_payload, past
\* the invalidation and the head selection, reads the justified block and
\* returns.
InvalidationPassEnds(t) ==
    pass[t].pc = "justified_block" /\ pass'[t] # pass[t]

HandlesResponse(t, statuses) ==
    /\ pass[t].pc = "response" /\ pass'[t] # pass[t]
    /\ pass[t].response.status \in statuses

\* Syncing and Accepted change no fork-choice state and return Ok.
SyncingAcceptedChangeNothing(t) ==
    HandlesResponse(t, {"Syncing", "Accepted"})
        => fork_choice' = fork_choice /\ UpdateReturns(t, "Ok")

\* The blocks strictly between the ancestor `lva` and the block `head`.
between(lva, head) == ancestors_until(head, lva) \ {head}

\* Invalid runs an invalidation pass over the notified head and the blocks
\* back to the latest valid hash (the block of a proper, known ancestor),
\* which keeps its status as do its ancestors; InvalidBlockHash
\* and InvalidTerminalBlock run one over the notified head only, every
\* proper ancestor keeping its status; head selection is then re-run.
InvalidResponsesInvalidate(t) ==
    LET head == pass[t].params
        lvh == pass[t].response.latest_valid_hash
    IN /\ HandlesResponse(t, {"Invalid", "InvalidBlockHash", "InvalidTerminalBlock"})
            => /\ fork_choice'.nodes[head] = "Invalid"
               /\ pass'[t].pc = "get_head" /\ pass'[t].depth = pass[t].depth + 1
       /\ (/\ HandlesResponse(t, {"Invalid"})
           /\ lvh \in Roots /\ contains_block(fork_choice, lvh)
           /\ is_descendant(lvh, head) /\ lvh # head)
            => /\ \A r \in between(lvh, head) : fork_choice'.nodes[r] = "Invalid"
               /\ \A r \in Roots :
                     is_descendant(r, lvh) => fork_choice'.nodes[r] = fork_choice.nodes[r]
       /\ HandlesResponse(t, {"InvalidBlockHash", "InvalidTerminalBlock"})
            => \A r \in Roots :
                  (r # head /\ is_descendant(r, head))
                      => fork_choice'.nodes[r] = fork_choice.nodes[r]

C15_SwapThenNotifyAndPrepare ==
    [][\A t \in HeadThreads :
          /\ (pass[t].pc = "persist" /\ pass'[t] # pass[t])
                => pass'[t].pc = "update_execution_engine"
          /\ (pass[t].swapped /\ pass[t].pc # "done" /\ pass'[t].pc = "done")
                => /\ pass[t].pc = "prepare_beacon_proposer"
                   /\ pass'[t].result = "Ok"]_vars

\* C16: while a notify_forkchoice_updated call is about to be sent or is
\* outstanding at the execution engine, its caller holds the ordering lock
\* and does not hold the fork choice lock, which block import and head
\* selection are free to take.
C16_TwoLockHandoff ==
    \A t \in PassThreads :
        pass[t].pc \in {"notify_forkchoice_updated", "await_response"}
            => ee_lock = t /\ fc_lock # t

\* C16 witness: the call of thread "el" is in flight at the engine while the
\* importing thread holds the fork choice write lock.
C16_Witness ==
    /\ pass["el"].pc = "await_response"
    /\ engine.in_flight = 1
    /\ ee_lock = "el"
    /\ fc_lock = "imp"
    /\ imp.pc = "on_block"

\* ------------------------------------------------------------------------
\* Properties of the re-org depth
\* ------------------------------------------------------------------------
\* The slot of the old head H of the pair of forked chains.
OldHeadSlot == SetMax(forks.old_slots)

\* The last slot at which the two chains hold the same block root: the slot
\* before the first block of either chain after the common ancestor (the
\* slot of the common ancestor itself unless both chains skip slots after
\* it).
LastCommonSlot == Min(SetMin(forks.old_slots), SetMin(forks.new_slots)) - 1

\* Whether that slot lies within the historical-roots window of both heads.
CommonRootInWindow ==
    /\ LastCommonSlot >= OldHeadSlot - SlotsPerHistoricalRoot
    /\ LastCommonSlot >= SetMax(forks.new_slots) - SlotsPerHistoricalRoot

C18_ClearedAfterSwap ==
    [][\A t \in HeadThreads :
          /\ (pass[t].pc = "clear_cache" /\ pass'[t] # pass[t]) => pass[t].swapped
          /\ canonical_head' # canonical_head => early_attester_cache' = NoRoot
          /\ (pass[t].pc # "done" /\ pass'[t].pc = "done" /\ ~pass'[t].swapped)
                => pass[t].pc # "canonical_head"]_vars

\* C18 (amended): every pass that changes the canonical head has cleared
\* the early attester cache in the step right before the swap: the swap is
\* tried only after the clear, the swap itself leaves the cache alone (so
\* an entry inserted by a block import between the two survives the head
\* change), nothing but this step of a pass empties the cache, and a pass
\* that returns before it (head unchanged, or an earlier error) leaves the
\* cache as it is.
C18_ClearedBeforeSwap ==
    [][\A t \in HeadThreads :
          /\ (pass[t].pc # "canonical_head" /\ pass'[t].pc = "canonical_head")
                => pass[t].pc = "clear_cache" /\ early_attester_cache' = NoRoot
          /\ (pass[t].pc = "canonical_head" /\ pass'[t] # pass[t])
                => /\ early_attester_cache' = early_attester_cache
                   /\ \/ pass'[t].swapped /\ canonical_head' = pass[t].root
                      \/ /\ pass'[t].pc = "done" /\ canonical_head' = canonical_head
                         /\ pass'[t].result = "CanonicalHeadLockTimeout"
          /\ canonical_head' # canonical_head
                => \E u \in HeadThreads : pass[u].pc = "canonical_head" /\ pass'[u].swapped
          /\ (early_attester_cache # NoRoot /\ early_attester_cache' = NoRoot)
                => \E u \in HeadThreads :
                      pass[u].pc = "clear_cache" /\ pass'[u].pc = "canonical_head"
          /\ (/\ pass[t].pc \in {"get_head", "head_info", "new_head"}
              /\ pass'[t].pc = "done")
                => early_attester_cache' = early_attester_cache]_vars

\* C18 witness: a block import filled the early attester cache after a pass
\* cleared it and before that pass swapped the head.
C18_Witness ==
    /\ pass["fc"].pc = "canonical_head"
    /\ early_attester_cache # NoRoot
    /\ early_attester_cache # pass["fc"].root
    /\ canonical_head # pass["fc"].root

\* ------------------------------------------------------------------------
\* Properties of lock acquisition
\* ------------------------------------------------------------------------
\* C19 (as stated): every acquisition of a lock on the canonical head or on
\* fork choice waits at most a fixed timeout and then fails with a typed
\* error, so no caller of block import or head selection blocks on one of
\* these locks: a thread that stands at such an acquisition can always take
\* its step, whoever holds the lock.
C19_LockAcquisitionsTimeOut ==
    /\ \A t \in HeadThreads :
          /\ pass[t].pc = "get_head" => ENABLED fork_choice_get_head(t)
          /\ pass[t].pc = "head_info" => ENABLED fork_choice_head_info(t)
          /\ pass[t].pc = "canonical_head" => ENABLED fork_choice_set_head(t)
    /\ imp.pc = "fork_choice_write" => ENABLED import_block_lock

\* The step of thread t that follows the swap of the head: the persistence,
\* the pruning, the finalization work and the events.
AfterSwap(t) == pass[t].pc = "persist" /\ pass'[t] # pass[t]

\* The head tracker record and fork choice are written to the store.
HeadAndForkChoiceWritten ==
    /\ persisted_fork_choice' = to_persisted(fork_choice)
    /\ persisted_beacon_chain' = make_persisted_head(head_tracker)

\* C20: when a pass swapped the head across an epoch boundary or in a
\* re-org, it goes on towards its Ok only with the head tracker record and
\* fork choice written to the store and the operation pool pruned for the
\* current epoch, and the two records are written together or not at all; a
\* swap that is neither writes neither record; and a pass that swapped the
\* head returns Ok only after this step.
C20_PersistOnTransitionOrReorg ==
    [][\A t \in HeadThreads :
          /\ (/\ AfterSwap(t)
              /\ \/ is_epoch_transition(pass[t].old, pass[t].root)
                 \/ is_reorg(pass[t].old, pass[t].root))
                => /\ pass'[t].pc # "done"
                      => /\ HeadAndForkChoiceWritten
                         /\ op_pool' = current_epoch
                   /\ \/ HeadAndForkChoiceWritten
                      \/ UNCHANGED <<persisted_fork_choice, persisted_beacon_chain>>
          /\ (/\ AfterSwap(t)
              /\ ~is_epoch_transition(pass[t].old, pass[t].root)
              /\ ~is_reorg(pass[t].old, pass[t].root))
                => UNCHANGED <<persisted_fork_choice, persisted_beacon_chain>>
          /\ (/\ pass[t].swapped /\ pass[t].pc # "done"
              /\ pass'[t].pc = "done" /\ pass'[t].result = "Ok")
                => pass[t].pc = "prepare_beacon_proposer"]_vars

\* C20 witness: a pass swapped the head from genesis to a block of a later
\* epoch and stands before the update of the execution engine: the store
\* holds the head tracker and the fork choice of the moment, and the
\* operation pool is pruned for the current epoch.
C20_Witness ==
    \E t \in HeadThreads :
        /\ pass[t].pc = "update_execution_engine" /\ pass[t].swapped
        /\ epoch(slot(canonical_head)) > 0
        /\ persisted_fork_choice = to_persisted(fork_choice)
        /\ persisted_fork_choice # to_persisted(genesis_fork_choice)
        /\ persisted_beacon_chain = make_persisted_head(head_tracker)
        /\ op_pool = current_epoch

\* ------------------------------------------------------------------------
\* Properties of the weak subjectivity check of import_block
\* ------------------------------------------------------------------------
\* The step of import_block that handles a failed
\* verify_weak_subjectivity_checkpoint.
WssVerificationFailed ==
    /\ imp.pc = "weak_subjectivity"
    /\ imp.wss_result # "Ok"
    /\ imp' # imp

\* What the failed check leaves alone: the block is not registered with fork
\* choice, not written to the store, not added to the head tracker and not
\* announced by a block event.
WssBlockNotImported ==
    /\ ~contains_block(fork_choice, imp.block)
    /\ imp.block \notin store
    /\ imp.block \notin head_tracker
    /\ imp.block \notin events

\* C21 (as stated): when the weak subjectivity verification of import_block
\* fails for a block, a shutdown is requested and WeakSubjectivityConflict
\* is returned, and the block is neither in fork choice nor in the store,
\* the head tracker or the block events.
C21_WssFailureReturnsConflict ==
    /\ [][WssVerificationFailed
            => /\ shutdown' = shutdown \cup {WEAK_SUBJECTIVITY_SHUTDOWN_REASON}
               /\ imp'.pc = "done"
               /\ imp'.result = "WeakSubjectivityConflict"]_vars
    /\ [](imp.pc = "done" /\ imp.wss_result \notin {None, "Ok"} => WssBlockNotImported)

\* C21 (amended): when the weak subjectivity verification of import_block
\* fails for a block, the shutdown request is handed to the shutdown channel
\* and import_block returns WeakSubjectivityConflict, or the error of the
\* channel when it did not take the request; either way the block is neither
\* in fork choice nor in the store, the head tracker or the block events,
\* and the fork choice lock is released.
C21_WssFailureShutsDown ==
    /\ [][WssVerificationFailed
            => /\ shutdown' = shutdown \cup {WEAK_SUBJECTIVITY_SHUTDOWN_REASON}
               /\ imp'.pc = "done"
               /\ imp'.result \in {"WeakSubjectivityConflict",
                                   "WeakSubjectivtyShutdownError"}
               /\ fc_lock' = None
               /\ UNCHANGED <<fork_choice, store, head_tracker, events>>]_vars
    /\ [](imp.pc = "done" /\ imp.wss_result \notin {None, "Ok"} => WssBlockNotImported)

\* C21 witness: the check failed on a block whose finalized checkpoint
\* differs from the configured one, the shutdown was requested and
\* WeakSubjectivityConflict returned.
C21_Witness ==
    /\ imp.pc = "done"
    /\ imp.wss_result = "WeakSubjectivtyVerificationFailure"
    /\ imp.result = "WeakSubjectivityConflict"
    /\ WEAK_SUBJECTIVITY_SHUTDOWN_REASON \in shutdown
    /\ config.weak_subjectivity_checkpoint.root # finalized_checkpoint(imp.block).root
    /\ WssBlockNotImported

\* ------------------------------------------------------------------------
\* The naive aggregation pools and per_slot_task
\* ------------------------------------------------------------------------
\* The look-back window of the pools, in slots.
SLOTS_RETAINED == 1

\* NaiveAggregationPool::insert(item), its outcome: a stale slot is
\* rejected first (SlotTooLow), an item the pool cannot take is any other
\* error, an item of a slot the pool holds was already seen, any other item
\* is stored.
insert_outcome(pool, item) ==
    IF item.slot < pool.lowest_permissible_slot THEN "SlotTooLow"
    ELSE IF ~item.well_formed THEN "NaiveAggregationError"
    ELSE IF item.slot \in pool.maps THEN "SignatureAlreadyKnown"
    ELSE "NewItemInserted"

\* NaiveAggregationPool::insert(item), the pool it leaves.
insert(pool, item) ==
    IF insert_outcome(pool, item) = "NewItemInserted"
    THEN [pool EXCEPT !.maps = @ \cup {item.slot}]
    ELSE pool

\* NaiveAggregationPool::prune(at_slot): the entries older than the
\* look-back window are discarded, and slots before it no longer permitted.
prune(pool, at_slot) ==
    LET lowest_permissible_slot == saturating_sub(at_slot, SLOTS_RETAINED)
    IN [lowest_permissible_slot |-> lowest_permissible_slot,
        maps |-> {s \in pool.maps : s >= lowest_permissible_slot}]

\* The items handed to the pools: verified attestations and sync committee
\* messages, of a slot not after the wall-clock slot.
PoolItems == [slot : 0..MaxPoolSlot, well_formed : BOOLEAN]

\* add_to_naive_aggregation_pool_result with no arm for SlotTooLow.
add_to_naive_aggregation_pool_strict(outcome) ==
    IF outcome \in {"NewItemInserted", "SignatureAlreadyKnown"}
    THEN "Ok" ELSE "BeaconChainError"

\* match self.naive_aggregation_pool.write().insert(attestation): Ok(outcome)
\* and Err(SlotTooLow) are logged, any other error is returned.
add_to_naive_aggregation_pool_result(outcome) ==
    IF outcome \in {"NewItemInserted", "SignatureAlreadyKnown", "SlotTooLow"}
    THEN "Ok" ELSE "BeaconChainError"

\* match self.naive_sync_aggregation_pool.write().insert(&contribution)
add_to_naive_sync_aggregation_pool_result(outcome) ==
    IF outcome \in {"NewItemInserted", "SignatureAlreadyKnown", "SlotTooLow"}
    THEN "Ok" ELSE "BeaconChainError"

\* add_to_naive_aggregation_pool is called with a verified attestation.
add_to_naive_aggregation_pool(item) ==
    /\ att_call.pc \in {"idle", "done"}
    /\ item.slot <= slot_clock
    /\ att_call' = [att_idle EXCEPT !.pc = "insert", !.slot = item.slot,
                                    !.well_formed = item.well_formed]
    /\ UNCHANGED <<core_vars, beside_pool_vars, slot_clock, naive_aggregation_pool,
                   naive_sync_aggregation_pool, sync_call, slot_task,
                   fork_choice_signal>>

\* The insert under the write lock of the pool, the match on its result and
\* the return.
naive_aggregation_pool_insert ==
    /\ att_call.pc = "insert"
    /\ LET item == [slot |-> att_call.slot, well_formed |-> att_call.well_formed]
           outcome == insert_outcome(naive_aggregation_pool, item)
       IN /\ naive_aggregation_pool' = insert(naive_aggregation_pool, item)
          /\ att_call' = [att_idle EXCEPT
                            !.pc = "done", !.outcome = outcome,
                            !.result = add_to_naive_aggregation_pool_result(outcome)]
    /\ UNCHANGED <<core_vars, beside_pool_vars, slot_clock,
                   naive_sync_aggregation_pool, sync_call, slot_task,
                   fork_choice_signal>>

\* add_to_naive_sync_aggregation_pool is called with a verified sync
\* committee message that covers `positions` subnet positions.
add_to_naive_sync_aggregation_pool(item, positions) ==
    /\ sync_call.pc \in {"idle", "done"}
    /\ item.slot <= slot_clock
    /\ sync_call' = [sync_idle EXCEPT !.pc = "loop", !.slot = item.slot,
                                      !.well_formed = item.well_formed,
                                      !.positions = positions]
    /\ UNCHANGED <<core_vars, beside_pool_vars, slot_clock, naive_aggregation_pool,
                   naive_sync_aggregation_pool, att_call, slot_task,
                   fork_choice_signal>>

\* The call returns `result`; its locals are dropped.
sync_return(outcome, result) ==
    [sync_idle EXCEPT !.pc = "done", !.outcome = outcome, !.result = result]

\* One turn of the loop over the subnet positions: the contribution is built
\* from the message (from_message may fail, whose error is returned), and
\* inserted under the write lock of the pool; an error other than SlotTooLow
\* is returned. After the last position the message is returned (Ok).
naive_sync_aggregation_pool_insert ==
    /\ sync_call.pc = "loop"
    /\ \/ /\ sync_call.positions = 0
          /\ sync_call' = sync_return(sync_call.outcome, "Ok")
          /\ UNCHANGED naive_sync_aggregation_pool
       \/ /\ sync_call.positions > 0
          /\ sync_call' = sync_return(sync_call.outcome, "ContributionError")
          /\ UNCHANGED naive_sync_aggregation_pool
       \/ /\ sync_call.positions > 0
          /\ LET item == [slot |-> sync_call.slot, well_formed |-> sync_call.well_formed]
                 outcome == insert_outcome(naive_sync_aggregation_pool, item)
                 result == add_to_naive_sync_aggregation_pool_result(outcome)
             IN /\ naive_sync_aggregation_pool' = insert(naive_sync_aggregation_pool, item)
                /\ sync_call' =
                      IF result # "Ok" THEN sync_return(outcome, result)
                      ELSE [sync_call EXCEPT !.positions = @ - 1, !.outcome = outcome]
    /\ UNCHANGED <<core_vars, beside_pool_vars, slot_clock, naive_aggregation_pool,
                   att_call, slot_task,
                   fork_choice_signal>>

\* per_slot_task, called by the timer at the start of a slot: the clock has
\* moved to the next slot, which slot_clock.now() returns, and
\* self.fork_choice() is called (on thread "timer").
per_slot_task ==
    /\ slot_task.pc = "idle"
    /\ pass["timer"].pc \in {"idle", "done"}
    /\ slot_clock < MaxPoolSlot
    /\ slot_clock' = slot_clock + 1
    /\ slot_task' = [pc |-> "fork_choice", slot |-> slot_clock']
    /\ pass' = [pass EXCEPT !["timer"] = [pass_idle EXCEPT !.pc = "get_head"]]
    /\ UNCHANGED <<fork_choice, fc_lock, persisted_fork_choice, store, head_tracker,
                   events, early_attester_cache, canonical_head, imp, seg, ee_lock,
                   engine, bellatrix, block_error, persisted_beacon_chain, op_pool, finalization,
                   shutdown, sse, event_handler, forks, beside_pool_vars,
                   naive_aggregation_pool, naive_sync_aggregation_pool, att_call,
                   sync_call, fork_choice_signal>>

\* tx.notify_fork_choice_complete(slot): the slot is signalled to the
\* waiters; a slot behind the one already signalled is an error, which
\* per_slot_task logs.
notify_fork_choice_complete(signal, s) == Max(signal, s)

\* Mutant of per_slot_task_goes_on: an error of head selection ends the task.
per_slot_task_stops_on_error(result) == result = "Ok"

\* if let Err(e) = self.fork_choice() { error!(..) }: the error of head
\* selection is logged and the task goes on.
per_slot_task_goes_on(result) == TRUE

\* per_slot_task once self.fork_choice() has returned (its error is logged):
\* the waiters are signalled, and naive_aggregation_pool and
\* block_times_cache are pruned for the slot read at the start.
per_slot_task_prune ==
    /\ slot_task.pc = "fork_choice"
    /\ pass["timer"].pc = "done"
    /\ IF per_slot_task_goes_on(pass["timer"].result)
       THEN /\ fork_choice_signal' =
                  notify_fork_choice_complete(fork_choice_signal, slot_task.slot)
            /\ naive_aggregation_pool' = prune(naive_aggregation_pool, slot_task.slot)
       ELSE UNCHANGED <<fork_choice_signal, naive_aggregation_pool>>
    /\ slot_task' = [slot_task EXCEPT !.pc = "idle"]
    /\ UNCHANGED <<core_vars, beside_pool_vars, slot_clock,
                   naive_sync_aggregation_pool, att_call, sync_call>>

\* ------------------------------------------------------------------------
\* Properties of the aggregation pools
\* ------------------------------------------------------------------------
\* The outcomes of insert with which the pool took the item, newly stored or
\* already seen.
Accepted == {"NewItemInserted", "SignatureAlreadyKnown"}

\* The step in which add_to_naive_aggregation_pool inserts and returns, and
\* what insert makes of its item.
AttInsertStep == att_call.pc = "insert" /\ att_call' # att_call

AttOutcome ==
    insert_outcome(naive_aggregation_pool,
                   [slot |-> att_call.slot, well_formed |-> att_call.well_formed])

\* One turn of the loop of add_to_naive_sync_aggregation_pool over a
\* position, and what insert makes of the contribution.
SyncInsertStep ==
    sync_call.pc = "loop" /\ sync_call.positions > 0 /\ sync_call' # sync_call

SyncOutcome ==
    insert_outcome(naive_sync_aggregation_pool,
                   [slot |-> sync_call.slot, well_formed |-> sync_call.well_formed])

\* add_to_naive_aggregation_pool returns Ok when the pool accepts the item,
\* which the pool then holds, and when it rejects it with SlotTooLow, the
\* pool unchanged; any other pool error is returned.
AttPoolResults ==
    AttInsertStep =>
        /\ att_call'.pc = "done"
        /\ AttOutcome \in Accepted
              => /\ att_call'.result = "Ok"
                 /\ att_call.slot \in naive_aggregation_pool'.maps
        /\ AttOutcome = "SlotTooLow"
              => /\ att_call'.result = "Ok"
                 /\ naive_aggregation_pool' = naive_aggregation_pool
        /\ AttOutcome \notin Accepted \cup {"SlotTooLow"}
              => /\ att_call'.result = "BeaconChainError"
                 /\ naive_aggregation_pool' = naive_aggregation_pool

\* C22 (as stated): add_to_naive_aggregation_pool and
\* add_to_naive_sync_aggregation_pool return Ok both when the pool accepts
\* the item and when it rejects it with SlotTooLow (the pool unchanged), and
\* return an error only for any other pool error: no call ends in an error
\* unless an insert of the call failed with an error other than SlotTooLow.
C22_ErrorOnlyOnPoolError ==
    [][/\ AttPoolResults
       /\ (sync_call.pc = "loop" /\ sync_call'.pc = "done")
             => \/ sync_call'.result = "Ok"
                \/ /\ sync_call.positions > 0
                   /\ SyncOutcome \notin Accepted \cup {"SlotTooLow"}
                   /\ sync_call'.result = "BeaconChainError"]_vars

\* C22 (amended): add_to_naive_aggregation_pool returns Ok both when the
\* pool accepts the item and when it rejects it with SlotTooLow (the pool
\* unchanged), and an error only for any other pool error.
\* add_to_naive_sync_aggregation_pool inserts one contribution per subnet
\* position: each accepted or SlotTooLow insert lets the loop go on (the pool
\* unchanged on SlotTooLow) and the call returns Ok after the last position;
\* it returns an error for any other pool error and also when a contribution
\* cannot be built from the message, in both cases with the contributions of
\* the earlier positions left in the pool.
C22_PoolResults ==
    [][/\ AttPoolResults
       /\ (sync_call.pc = "loop" /\ sync_call'.pc = "done")
             => \/ /\ sync_call.positions = 0
                   /\ sync_call'.result = "Ok"
                \/ /\ sync_call.positions > 0
                   /\ sync_call'.result = "ContributionError"
                   /\ naive_sync_aggregation_pool' = naive_sync_aggregation_pool
                \/ /\ sync_call.positions > 0
                   /\ SyncOutcome \notin Accepted \cup {"SlotTooLow"}
                   /\ sync_call'.result = "BeaconChainError"
                   /\ naive_sync_aggregation_pool' = naive_sync_aggregation_pool
       /\ (SyncInsertStep /\ sync_call'.pc = "loop")
             => /\ SyncOutcome \in Accepted \cup {"SlotTooLow"}
                /\ sync_call'.positions = sync_call.positions - 1
                /\ SyncOutcome \in Accepted
                      => sync_call.slot \in naive_sync_aggregation_pool'.maps
                /\ SyncOutcome = "SlotTooLow"
                      => naive_sync_aggregation_pool' = naive_sync_aggregation_pool
       /\ (SyncInsertStep /\ SyncOutcome \in Accepted \cup {"SlotTooLow"})
             => sync_call'.result \in {None, "ContributionError"}]_vars

\* C22 witness: an attestation of a slot the pool no longer permits was
\* dropped with Ok, the pool holding only later slots, while a sync
\* committee message went into its pool and was returned.
C22_Witness ==
    /\ att_call.pc = "done"
    /\ att_call.outcome = "SlotTooLow"
    /\ att_call.result = "Ok"
    /\ naive_aggregation_pool.lowest_permissible_slot > 0
    /\ \A s \in naive_aggregation_pool.maps :
          s >= naive_aggregation_pool.lowest_permissible_slot
    /\ sync_call.pc = "done"
    /\ sync_call.outcome \in Accepted
    /\ sync_call.result = "Ok"
    /\ naive_sync_aggregation_pool.maps # {}

\* The step in which per_slot_task, run for the slot slot_task.slot, ends.
SlotTaskEnds == slot_task.pc = "fork_choice" /\ slot_task'.pc = "idle"

\* The pool holds no entry older than the look-back window before at_slot.
WithinWindow(pool, at_slot) ==
    \A s \in pool.maps : s >= saturating_sub(at_slot, SLOTS_RETAINED)

\* C23 (as stated): after each per_slot_task run at slot s neither the
\* attestation pool nor the sync contribution pool holds an entry older than
\* the look-back window relative to s.
C23_BothPoolsPrunedEverySlot ==
    [][SlotTaskEnds
          => /\ WithinWindow(naive_aggregation_pool', slot_task.slot)
             /\ WithinWindow(naive_sync_aggregation_pool', slot_task.slot)]_vars

\* ------------------------------------------------------------------------
\* with_committee_cache
\* ------------------------------------------------------------------------
\* The blocks with_committee_cache is called for: the first block, and the
\* last block that passes verification, two epochs apart.
CommitteeHeads == {1, NumBlocks - 1}

\* with_committee_cache(head_block_root, shuffling_epoch, map_fn) is called.
with_committee_cache(head_block_root, shuffling_epoch) ==
    /\ committee_call.pc \in {"idle", "done"}
    /\ committee_call' = [committee_idle EXCEPT !.pc = "get_block",
                                                !.head_block_root = head_block_root,
                                                !.shuffling_epoch = shuffling_epoch]
    /\ UNCHANGED <<core_vars, beside_committee_vars, shuffling_cache>>

\* The call returns an error: nothing of it is left but the error.
committee_return(result) == [committee_idle EXCEPT !.pc = "done", !.result = result]

\* map_fn(committee_cache, shuffling_decision_block) is handed the committee:
\* what is left of the call is the id it asked for, the committee it handed
\* out and the path it took.
committee_map_fn(committee, path) ==
    [committee_idle EXCEPT !.pc = "done", !.result = "Ok", !.committee = committee,
                           !.shuffling_id = committee_call.shuffling_id, !.path = path]

\* self.fork_choice.read().get_block(&head_block_root) and the shuffling id
\* of the block for shuffling_epoch.
with_committee_cache_get_block ==
    /\ committee_call.pc = "get_block"
    /\ fc_lock = None
    /\ LET head_block_root == committee_call.head_block_root
           shuffling_id == id_for_epoch(head_block_root, committee_call.shuffling_epoch)
       IN committee_call' =
             IF ~contains_block(fork_choice, head_block_root)
             THEN committee_return("MissingBeaconBlock")
             ELSE IF shuffling_id = {} THEN committee_return("InvalidShufflingId")
             ELSE [committee_call EXCEPT !.pc = "shuffling_cache",
                                         !.shuffling_id = CHOOSE id \in shuffling_id : TRUE]
    /\ UNCHANGED <<core_vars, beside_committee_vars, shuffling_cache>>

\* self.shuffling_cache.try_write_for(ATTESTATION_CACHE_LOCK_TIMEOUT) and the
\* lookup: a hit hands the cached committee to map_fn under the lock; a miss
\* drops the lock and goes on to load a state.
with_committee_cache_lookup ==
    /\ committee_call.pc = "shuffling_cache"
    /\ \/ committee_call' = committee_return("AttestationCacheLockTimeout")
       \/ /\ shuffling_cache_contains(shuffling_cache, committee_call.shuffling_id)
          /\ committee_call' =
                committee_map_fn(shuffling_cache_get(shuffling_cache,
                                                     committee_call.shuffling_id), "hit")
       \/ /\ ~shuffling_cache_contains(shuffling_cache, committee_call.shuffling_id)
          /\ committee_call' =
                IF epoch(slot(committee_call.head_block_root))
                      > committee_call.shuffling_epoch + 1
                THEN committee_return("InvalidStateForShuffling")
                ELSE [committee_call EXCEPT !.pc = "state"]
    /\ UNCHANGED <<core_vars, beside_committee_vars, shuffling_cache>>

\* The miss path: the state of the head snapshot if it is the state of
\* head_block_root, a state of the store otherwise; the state is advanced to
\* target_slot if it is more than an epoch before shuffling_epoch, and its
\* committee cache is built for the relative epoch.
with_committee_cache_build ==
    /\ committee_call.pc = "state"
    /\ LET head_block_root == committee_call.head_block_root
           shuffling_epoch == committee_call.shuffling_epoch
           target_slot == Max(start_slot(saturating_sub(shuffling_epoch, 1)),
                              slot(head_block_root))
           loaded == IF canonical_head = head_block_root THEN {slot(head_block_root)}
                     ELSE get_advanced_state(head_block_root, target_slot)
       IN \/ \E result \in {"CanonicalHeadLockTimeout", "DBError", "MissingBeaconState",
                            "BeaconStateError"} :
                committee_call' = committee_return(result)
          \/ \E state_slot \in loaded :
                LET advanced == IF epoch(state_slot) + 1 < shuffling_epoch
                                THEN target_slot ELSE state_slot
                    relative_epoch == RelativeEpoch_from_epoch(epoch(advanced),
                                                               shuffling_epoch)
                IN committee_call' =
                      IF relative_epoch = "Error"
                      THEN committee_return("IncorrectStateForAttestation")
                      ELSE [committee_call EXCEPT
                               !.pc = "insert",
                               !.committee = committee_cache(head_block_root, advanced,
                                                             shuffling_epoch)]
    /\ UNCHANGED <<core_vars, beside_committee_vars, shuffling_cache>>

\* The miss path: the committee is inserted under the shuffling id and handed
\* to map_fn.
with_committee_cache_insert ==
    /\ committee_call.pc = "insert"
    /\ \/ /\ committee_call' = committee_return("AttestationCacheLockTimeout")
          /\ UNCHANGED shuffling_cache
       \/ /\ shuffling_cache' = shuffling_cache_insert(shuffling_cache,
                                                       committee_call.shuffling_id,
                                                       committee_call.committee)
          /\ committee_call' = committee_map_fn(committee_call.committee, "miss")
    /\ UNCHANGED <<core_vars, beside_committee_vars>>

\* The cache is bounded: an insertion may drop an entry, whichever the
\* shuffling ids of the blocks outside this universe make the oldest.
shuffling_cache_evict ==
    /\ \E entry \in shuffling_cache : shuffling_cache' = shuffling_cache \ {entry}
    /\ UNCHANGED <<core_vars, beside_committee_vars, committee_call>>

\* ------------------------------------------------------------------------
\* C24: blocks that share a decision root share a shuffling, and
\* with_committee_cache hands out the same committee for a (block, epoch)
\* whether the shuffling cache serves it or a state is loaded for it.
\* ------------------------------------------------------------------------
\* The committee the miss path builds for the block and the epoch, from
\* whichever state the store gives it.
recomputed_committees(head_block_root, shuffling_epoch) ==
    LET target_slot == Max(start_slot(saturating_sub(shuffling_epoch, 1)),
                           slot(head_block_root))
    IN {committee_cache(head_block_root,
                        IF epoch(state_slot) + 1 < shuffling_epoch
                        THEN target_slot ELSE state_slot,
                        shuffling_epoch) :
           state_slot \in get_advanced_state(head_block_root, target_slot)}

CommitteeHandedOut == committee_call.pc = "done" /\ committee_call.result = "Ok"

\* C24: a committee handed to map_fn, from the cache or from a state, is the
\* committee recomputed for every known block whose shuffling id for the epoch
\* is the id of the call.
C24_SameCommitteeCachedOrRecomputed ==
    CommitteeHandedOut =>
        \A r \in Roots :
            (/\ contains_block(fork_choice, r)
             /\ committee_call.shuffling_id
                   \in id_for_epoch(r, committee_call.shuffling_id.shuffling_epoch))
            => recomputed_committees(r, committee_call.shuffling_id.shuffling_epoch)
                  = {committee_call.committee}

\* A committee served from the cache under an id that the blocks of
\* CommitteeHeads share:
\* the id of the epoch after the next of block 1 and of the next epoch of
\* block 3.
C24_Witness ==
    /\ CommitteeHandedOut
    /\ committee_call.path = "hit"
    /\ \A r \in CommitteeHeads :
          /\ contains_block(fork_choice, r)
          /\ committee_call.shuffling_id
                \in id_for_epoch(r, committee_call.shuffling_id.shuffling_epoch)

\* ------------------------------------------------------------------------
\* prepare_beacon_proposer_async
\* ------------------------------------------------------------------------
\* The slot prepare_beacon_proposer_async is called at: the first slot of
\* the epoch of the later blocks, whose next slot is in that epoch too. The
\* requests differ by the head they find.
PrepareSlots == {start_slot(1)}

PREPARE_PROPOSER_HISTORIC_EPOCHS == 4

proposer_return(result) == [proposer_idle EXCEPT !.pc = "done", !.result = result]

\* prepare_beacon_proposer_async(current_slot) up to the shuffling decision
\* root: nothing to do before the merge, without registered proposers or with
\* a head too far behind; self.head_info() reads the canonical head.
prepare_beacon_proposer_async(at_slot) ==
    /\ proposer_call.pc \in {"idle", "done"}
    /\ LET prepare_slot == at_slot + 1
           prepare_epoch == epoch(prepare_slot)
           head_epoch == epoch(slot(canonical_head))
       IN \/ /\ ~bellatrix
             /\ proposer_call' = proposer_return("Ok")
          \/ /\ bellatrix
             /\ \/ proposer_call' = proposer_return("Ok")
                \/ proposer_call' = proposer_return("CanonicalHeadLockTimeout")
                \/ proposer_call' =
                      IF slot(canonical_head)
                            + SlotsPerEpoch * PREPARE_PROPOSER_HISTORIC_EPOCHS < at_slot
                      THEN proposer_return("Ok")
                      ELSE [proposer_idle EXCEPT
                               !.pc = "get_slot",
                               !.prepare_slot = prepare_slot,
                               !.head_epoch = head_epoch,
                               !.shuffling_decision_root =
                                   IF head_epoch = prepare_epoch
                                   THEN proposer_shuffling_decision_root(
                                            canonical_head, slot(canonical_head))
                                   ELSE canonical_head]
    /\ UNCHANGED <<core_vars, beside_proposer_vars, beacon_proposer_cache, prepared>>

\* Mutant of head_too_far_behind: no head is too old for the duties.
head_never_too_far_behind(head_epoch, prepare_epoch) == FALSE

\* if head_epoch + 2 < prepare_epoch: the head would have to be skipped
\* forward more than two epochs.
head_too_far_behind(head_epoch, prepare_epoch) == head_epoch + 2 < prepare_epoch

\* The request has its proposer: the history may keep it, to compare a later
\* request for the same decision root and slot with it.
remember(proposer, cached) ==
    {prepared,
     [present |-> TRUE, shuffling_decision_root |-> proposer_call.shuffling_decision_root,
      prepare_slot |-> proposer_call.prepare_slot, proposer |-> proposer,
      cached |-> cached]}

\* self.beacon_proposer_cache.lock().get_slot(shuffling_decision_root,
\* prepare_slot): a cached proposer is taken; on a miss a head more than two
\* epochs behind ends the request, any other goes on to the duty computation.
prepare_get_slot ==
    /\ proposer_call.pc = "get_slot"
    /\ LET cached_proposer == get_slot(beacon_proposer_cache,
                                       proposer_call.shuffling_decision_root,
                                       proposer_call.prepare_slot)
       IN IF cached_proposer # {}
          THEN \E proposer \in cached_proposer :
                  /\ proposer_call' = [proposer_call EXCEPT !.pc = "proposer",
                                                            !.proposer = proposer,
                                                            !.cached = TRUE]
                  /\ prepared' \in remember(proposer, TRUE)
          ELSE /\ proposer_call' =
                     IF head_too_far_behind(proposer_call.head_epoch,
                                            epoch(proposer_call.prepare_slot))
                     THEN proposer_return("Ok")
                     ELSE [proposer_call EXCEPT !.pc = "compute"]
               /\ UNCHANGED prepared
    /\ UNCHANGED <<core_vars, beside_proposer_vars, beacon_proposer_cache>>

\* compute_proposer_duties_from_head(prepare_epoch, self), from the head the
\* chain has by now.
prepare_compute_proposer_duties ==
    /\ proposer_call.pc = "compute"
    /\ \/ proposer_call' = proposer_return("BeaconChainError")
       \/ \E duties \in compute_proposer_duties_from_head(epoch(proposer_call.prepare_slot),
                                                         canonical_head) :
             proposer_call' = [proposer_call EXCEPT !.pc = "insert", !.duties = duties]
    /\ UNCHANGED <<core_vars, beside_proposer_vars, beacon_proposer_cache, prepared>>

\* Whether the request goes on with the proposer it computed: not when the
\* head changed under the computation.
head_change_ignored(decision_root, shuffling_decision_root) == TRUE

head_unchanged_during_preparation(decision_root, shuffling_decision_root) ==
    decision_root = shuffling_decision_root

\* The proposer of the slot is taken from the computed duties, the duties are
\* inserted into the cache under their own decision root, and the request is
\* abandoned if that root is not the one it looked up.
prepare_insert ==
    /\ proposer_call.pc = "insert"
    /\ LET duties == proposer_call.duties
           proposer == proposer_at(duties.proposers,
                                   proposer_call.prepare_slot % SlotsPerEpoch)
       IN \/ /\ proposer_call' = proposer_return("BeaconProposerCacheError")
             /\ UNCHANGED <<beacon_proposer_cache, prepared>>
          \/ /\ beacon_proposer_cache' =
                   beacon_proposer_cache_insert(beacon_proposer_cache,
                                                epoch(proposer_call.prepare_slot),
                                                duties.decision_root, duties.proposers)
             /\ IF head_unchanged_during_preparation(duties.decision_root,
                                                     proposer_call.shuffling_decision_root)
                THEN /\ proposer_call' = [proposer_call EXCEPT !.pc = "proposer",
                                                               !.proposer = proposer]
                     /\ prepared' \in remember(proposer, FALSE)
                ELSE /\ proposer_call' = proposer_return("Ok")
                     /\ UNCHANGED prepared
    /\ UNCHANGED <<core_vars, beside_proposer_vars>>

\* With the proposer: nothing more if the execution layer has no data for
\* it or the prepare slot has begun; otherwise the payload attributes are
\* registered and, late in the slot or with the head next to the prepare
\* slot, update_execution_engine_forkchoice_async is awaited, whose result is
\* the result of the request.
prepare_payload_attributes ==
    /\ proposer_call.pc = "proposer"
    /\ \E result \in {"Ok", "InvalidSlot", "ExecutionForkChoiceUpdateFailed"} :
          proposer_call' = proposer_return(result)
    /\ UNCHANGED <<core_vars, beside_proposer_vars, beacon_proposer_cache, prepared>>

\* ------------------------------------------------------------------------
\* C25: two requests for the same (shuffling decision root, prepare slot)
\* obtain the same proposer, the second from the cache.
\* ------------------------------------------------------------------------
\* The request looks up the key of the remembered request.
SameKeyAsPrepared ==
    /\ prepared.present
    /\ proposer_call.shuffling_decision_root = prepared.shuffling_decision_root
    /\ proposer_call.prepare_slot = prepared.prepare_slot

\* C25: a request that looks up the decision root and slot for which an
\* earlier request obtained its proposer is served the same proposer from the
\* cache, and does not go on to compute_proposer_duties_from_head.
C25_SecondRequestServedFromCache ==
    [][(proposer_call.pc = "get_slot" /\ proposer_call'.pc # "get_slot"
        /\ SameKeyAsPrepared)
       => /\ proposer_call'.pc = "proposer"
          /\ proposer_call'.cached
          /\ proposer_call'.proposer = prepared.proposer]_vars

\* A request served from the cache the proposer that an earlier request
\* computed for the same key.
C25_Witness ==
    /\ proposer_call.pc = "proposer"
    /\ proposer_call.cached
    /\ SameKeyAsPrepared
    /\ proposer_call.proposer = prepared.proposer
    /\ ~prepared.cached
    /\ canonical_head # GenesisRoot

\* ------------------------------------------------------------------------
\* produce_block_on_state
\* ------------------------------------------------------------------------
ProduceBlockVerification == {"VerifyRandao", "NoVerification"}

\* The slots of the state and of the block handed to produce_block_on_state.
ProductionSlots == 0..SlotsPerEpoch

production_return(result) == [production EXCEPT !.pc = "done", !.result = result]

\* produce_block_on_state(state, .., produce_at_slot, .., verification) up to
\* SignedBeaconBlock::from_block: a state from a future slot is refused, the
\* state is advanced to the slot, the operations are packed; any of it may
\* fail. The block assembled has some encoded size.
produce_block_on_state(state_slot, produce_at_slot, verification) ==
    /\ production.pc \in {"idle", "done"}
    /\ LET call == [production_idle EXCEPT !.verification = verification]
       IN \/ /\ state_slot > produce_at_slot
             /\ production' = [call EXCEPT !.pc = "done", !.result = "StateSlotTooHigh"]
          \/ /\ state_slot <= produce_at_slot
             /\ \/ \E error \in {"NoEth1ChainConnection", "BeaconStateError",
                                 "UnableToGetBlockRootFromState", "Eth1ChainError",
                                 "OpPoolError", "GetPayloadFailed"} :
                      production' = [call EXCEPT !.pc = "done", !.result = error]
                \/ \E block_size \in 0..MaxBlockSize :
                      production' = [call EXCEPT !.pc = "block_size",
                                                 !.block_size = block_size]
    /\ UNCHANGED <<core_vars, beside_production_vars>>

\* if block_size > self.config.max_network_size
block_never_too_large(block_size, max_network_size) == FALSE

block_too_large(block_size, max_network_size) == block_size > max_network_size

\* The size check: a block over config.max_network_size ends the call.
produce_block_check_size ==
    /\ production.pc = "block_size"
    /\ production' =
          IF block_too_large(production.block_size, config.max_network_size)
          THEN production_return("BlockTooLarge")
          ELSE [production EXCEPT !.pc = "per_block_processing"]
    /\ UNCHANGED <<core_vars, beside_production_vars>>

\* per_block_processing on the candidate block, the state root, and the
\* return of the block with its state.
produce_block_per_block_processing ==
    /\ production.pc = "per_block_processing"
    /\ \/ \E error \in {"BlockProcessingError", "BeaconStateError"} :
             production' = [production EXCEPT !.pc = "done", !.result = error,
                                              !.per_block_processing = TRUE]
       \/ production' = [production EXCEPT !.pc = "done", !.result = "Ok",
                                           !.per_block_processing = TRUE,
                                           !.block = TRUE]
    /\ UNCHANGED <<core_vars, beside_production_vars>>

\* ------------------------------------------------------------------------
\* C26: a block over config.max_network_size is refused with BlockTooLarge
\* before per_block_processing runs on it.
\* ------------------------------------------------------------------------
\* The call has assembled a block over the configured size and is past the
\* check of its size (a call that fails before it assembles a block has no
\* block size).
AssembledTooLarge ==
    /\ production.pc \notin {"idle", "block_size"}
    /\ production.block_size > config.max_network_size

\* C26: once the size of an assembled block over config.max_network_size is
\* checked, the call has returned BlockTooLarge, per_block_processing has not
\* run and no block is returned.
C26_TooLargeBeforeProcessing ==
    AssembledTooLarge =>
        /\ production.pc = "done"
        /\ production.result = "BlockTooLarge"
        /\ ~production.per_block_processing
        /\ ~production.block

C26_Witness ==
    /\ production.pc = "done"
    /\ production.result = "BlockTooLarge"
    /\ production.block_size = config.max_network_size + 1

\* ------------------------------------------------------------------------
\* C28: the finalized epoch of the canonical head under two interleaved
\* head-selection passes.
\* ------------------------------------------------------------------------
\* C28 (as stated): with two passes interleaved, no swap of the canonical
\* head lowers its finalized epoch, and the head that the finalization
\* handling of a pass re-reads has a finalized epoch equal to or later than
\* that of the head the pass installed.
C28_SwapsNeverLowerFinalizedEpoch ==
    [][/\ canonical_head' # canonical_head
          => finalized_epoch(canonical_head') >= finalized_epoch(canonical_head)
       /\ \A t \in HeadThreads :
             (/\ pass[t].pc = "persist" /\ pass'[t] # pass[t]
              /\ finalized_epoch_changed(pass[t].old, pass[t].root))
                 => finalized_epoch(canonical_head) >= finalized_epoch(pass[t].root)]_vars

\* ------------------------------------------------------------------------
\* produce_unaggregated_attestation
\* ------------------------------------------------------------------------
\* The slots an attestation is requested for.
RequestSlots == 0..NumBlocks

\* early_attester_cache.try_attest(request_slot, request_index, spec): the
\* block an attestation synthesized from the cache names, which is the block
\* the cache holds. Whether the held item matches the request is decided
\* inside the cache; the caller sees a match, no match or an error.
try_attest(cache, request_slot) ==
    IF cache # NoRoot THEN {cache} ELSE {}

\* execution_status.is_valid_or_irrelevant()
is_valid_or_irrelevant(execution_status) == execution_status \in {"Valid", "Irrelevant"}

\* fork_choice.get_block_execution_status(root): the status, or Absent.
get_block_execution_status(fc, r) == fc.nodes[r]

\* The call returns `result`; an attestation names beacon_block_root.
attestation_return(result, beacon_block_root) ==
    [attestation_call EXCEPT !.pc = "done", !.result = result,
                             !.beacon_block_root = beacon_block_root]

\* produce_unaggregated_attestation(request_slot, request_index) is entered.
produce_unaggregated_attestation(request_slot) ==
    /\ attestation_call.pc \in {"idle", "done"}
    /\ attestation_call' = [attestation_idle EXCEPT !.pc = "try_attest",
                                                    !.request_slot = request_slot]
    /\ UNCHANGED <<core_vars, beside_attestation_vars>>

\* The early attester cache is asked first: a matching item is returned as
\* the attestation at once; without one, or on an error of the cache, the
\* call goes on to the canonical head.
produce_attestation_try_attest ==
    /\ attestation_call.pc = "try_attest"
    /\ \/ \E cached \in try_attest(early_attester_cache, attestation_call.request_slot) :
             attestation_call' = attestation_return("Ok", cached)
       \/ attestation_call' = [attestation_call EXCEPT !.pc = "canonical_head"]
    /\ UNCHANGED <<core_vars, beside_attestation_vars>>

\* The block of the canonical head chain at the request slot: the head for
\* a request at or after the head state's slot, else
\* head_state.get_block_root(request_slot).
attested_block_root(head_root, request_slot) ==
    IF request_slot >= slot(head_root) THEN head_root
    ELSE ancestor_at_slot(head_root, request_slot)

\* Phase 1: a short read lock on the canonical head, from which the block
\* root to attest to is copied.
produce_attestation_canonical_head ==
    /\ attestation_call.pc = "canonical_head"
    /\ LET request_slot == attestation_call.request_slot
           head_state_slot == slot(canonical_head)
           finalized_slot == start_slot(finalized_epoch(canonical_head))
           lowest_permissible_slot == saturating_sub(head_state_slot, SlotsPerHistoricalRoot)
       IN  \/ attestation_call' = attestation_return("CanonicalHeadLockTimeout", NoRoot)
           \/ /\ request_slot < finalized_slot
              /\ attestation_call' = attestation_return("AttestingToFinalizedSlot", NoRoot)
           \/ /\ request_slot >= finalized_slot
              /\ request_slot < lowest_permissible_slot
              /\ attestation_call' = attestation_return("AttestingToAncientSlot", NoRoot)
           \/ /\ request_slot >= finalized_slot
              /\ request_slot >= lowest_permissible_slot
              /\ \/ attestation_call' = attestation_return("BeaconStateError", NoRoot)
                 \/ attestation_call' =
                       [attestation_call EXCEPT
                          !.pc = "fork_choice",
                          !.beacon_block_root =
                             attested_block_root(canonical_head, request_slot)]
    /\ UNCHANGED <<core_vars, beside_attestation_vars>>

\* Only attest to a block if it is fully verified: what the match on the
\* block's execution status in fork choice yields.
execution_status_of(fc, r) ==
    LET execution_status == get_block_execution_status(fc, r)
    IN  IF execution_status = Absent THEN {"HeadMissingFromForkChoice"}
        ELSE IF is_valid_or_irrelevant(execution_status) THEN {"Ok"}
        ELSE {"HeadBlockNotFullyVerified"}

\* The read lock on fork choice for the execution status of the block.
produce_attestation_fork_choice ==
    /\ attestation_call.pc = "fork_choice"
    /\ fc_lock = None
    /\ \E outcome \in execution_status_of(fork_choice, attestation_call.beacon_block_root) :
          attestation_call' =
             IF outcome = "Ok" THEN [attestation_call EXCEPT !.pc = "attester_cache"]
             ELSE attestation_return(outcome, attestation_call.beacon_block_root)
    /\ UNCHANGED <<core_vars, beside_attestation_vars>>

\* Phase 2: the justified checkpoint and committee length, from the head
\* copy or the attester cache, and the attestation itself.
produce_attestation_phase_2 ==
    /\ attestation_call.pc = "attester_cache"
    /\ \/ attestation_call' =
             attestation_return("BeaconChainError", attestation_call.beacon_block_root)
       \/ attestation_call' = attestation_return("Ok", attestation_call.beacon_block_root)
    /\ UNCHANGED <<core_vars, beside_attestation_vars>>

produce_attestation_step ==
    \/ produce_attestation_try_attest
    \/ produce_attestation_canonical_head
    \/ produce_attestation_fork_choice
    \/ produce_attestation_phase_2

\* A step in which produce_unaggregated_attestation returns, having settled
\* on the block to attest to.
AttestationReturns ==
    /\ attestation_call.pc # "done"
    /\ attestation_call'.pc = "done"
    /\ attestation_call'.beacon_block_root # NoRoot

\* C29: produce_unaggregated_attestation never returns an attestation whose
\* beacon_block_root is Optimistic or Invalid in fork choice, be it served
\* from the early attester cache or built from the canonical head; for an
\* Optimistic or Invalid block it returns HeadBlockNotFullyVerified, for a
\* block unknown to fork choice HeadMissingFromForkChoice.
C29_AttestsOnlyToFullyVerified ==
    [][AttestationReturns =>
         LET execution_status ==
                get_block_execution_status(fork_choice,
                                           attestation_call'.beacon_block_root)
         IN  /\ attestation_call'.result = "Ok" =>
                   execution_status \notin {"Optimistic", "Invalid"}
             /\ execution_status \in {"Optimistic", "Invalid"} =>
                   attestation_call'.result = "HeadBlockNotFullyVerified"
             /\ execution_status = Absent =>
                   attestation_call'.result = "HeadMissingFromForkChoice"]_vars

\* ------------------------------------------------------------------------
\* Lock acquisition order of the operations
\* ------------------------------------------------------------------------
\* The acquisitions an operation makes, in program order. An acquisition
\* with a timeout is try_read_for / try_write_for; without one it is the
\* blocking read(), write() or lock().await. `drop` ends a guard (the drop
\* call or the end of its scope), and `return` marks the end of a call made
\* from within the operation.
try_read_for(lock) == [op |-> "read", lock |-> lock, timeout |-> TRUE, temporary |-> FALSE]

try_write_for(lock) == [op |-> "write", lock |-> lock, timeout |-> TRUE, temporary |-> FALSE]

read(lock) == [op |-> "read", lock |-> lock, timeout |-> FALSE, temporary |-> FALSE]

write(lock) == [op |-> "write", lock |-> lock, timeout |-> FALSE, temporary |-> FALSE]

drop(lock) == [op |-> "drop", lock |-> lock, timeout |-> FALSE, temporary |-> FALSE]

call_returns == [op |-> "return", lock |-> "fork_choice", timeout |-> FALSE,
                 temporary |-> FALSE]

\* A guard that is a temporary of one statement, or whose scope ends before
\* the thread reaches another acquisition: nothing is waited for under it.
temporary(acquisition) == [acquisition EXCEPT !.temporary = TRUE]

\* with_head(f): the canonical head read lock around the callback.
with_head == <<temporary(try_read_for("canonical_head"))>>

\* import_block: the shuffling cache is read and written before fork choice
\* is locked; under the fork choice write lock the block's attesters are
\* observed and sync_committee_at_epoch reads the canonical head; the lock
\* is dropped after the store write.
import_block_acquisitions ==
    <<temporary(try_read_for("shuffling_cache")),
      temporary(try_write_for("shuffling_cache")),
      write("fork_choice"),
      temporary(write("observed_block_attesters"))>>
    \o with_head
    \o <<drop("fork_choice")>>

\* after_finalization, entered with the canonical head read lock held:
\* fork choice is pruned under its write lock, then the observed block
\* producers.
after_finalization ==
    <<temporary(write("fork_choice")), temporary(write("observed_block_producers"))>>

\* fork_choice_internal up to the head swap: get_head under the fork choice
\* write lock, then head_info, and the new head swapped in under the head
\* write lock.
fork_choice_swap_acquisitions ==
    <<temporary(write("fork_choice"))>>
    \o with_head
    \o <<temporary(try_write_for("canonical_head"))>>

\* fork_choice_internal to its end: after the swap, fork choice is
\* persisted (read lock) and, on a new finalized epoch, the head is read
\* again and the guard kept over after_finalization.
fork_choice_acquisitions ==
    fork_choice_swap_acquisitions
    \o <<temporary(read("fork_choice")), try_read_for("canonical_head")>>
    \o after_finalization
    \o <<drop("canonical_head")>>

\* process_invalid_execution_payload: the invalidation under the fork choice
\* write lock, a head selection whose error is logged, and the justified
\* block read from fork choice.
process_invalid_execution_payload_acquisitions ==
    <<temporary(write("fork_choice"))>>
    \o fork_choice_swap_acquisitions
    \o <<call_returns, temporary(read("fork_choice"))>>

\* update_execution_engine_forkchoice_async: the ordering lock is held from
\* before the fork choice read until the engine has answered; the answer is
\* applied to fork choice after it was dropped.
update_execution_engine_forkchoice_acquisitions ==
    <<write("execution_engine_forkchoice_lock"),
      temporary(read("fork_choice")),
      drop("execution_engine_forkchoice_lock")>>
    \o process_invalid_execution_payload_acquisitions

\* The slow path of with_committee_cache: the state of the head block is
\* copied from the head or loaded from the store, and advanced.
state_load == [op |-> "load", lock |-> "shuffling_cache", timeout |-> FALSE,
               temporary |-> FALSE]

\* Mutant of with_committee_cache_acquisitions: the shuffling cache lock is
\* kept over the state load.
with_committee_cache_lock_kept ==
    <<temporary(read("fork_choice")),
      try_write_for("shuffling_cache")>>
    \o with_head
    \o <<state_load, drop("shuffling_cache"),
         temporary(try_write_for("shuffling_cache"))>>

\* with_committee_cache: the head block from fork choice, then the
\* shuffling cache; on a miss the lock is dropped before the head is read
\* and the state loaded, and taken again for the insert.
with_committee_cache_acquisitions ==
    <<temporary(read("fork_choice")),
      try_write_for("shuffling_cache"), drop("shuffling_cache")>>
    \o with_head
    \o <<state_load, temporary(try_write_for("shuffling_cache"))>>

\* What each thread runs, followed to its last acquisition; a call that
\* ends earlier (an unchanged head, a cache hit, an error) is a return of
\* lock_return.
acquisitions_of(t) ==
    IF t = "imp" THEN import_block_acquisitions
    ELSE IF t = "fc" THEN fork_choice_acquisitions
    ELSE IF t = "timer" THEN fork_choice_swap_acquisitions
    ELSE IF t = "el" THEN update_execution_engine_forkchoice_acquisitions
    ELSE with_committee_cache_acquisitions

\* The operation of thread t has acquisitions left, and the next one.
lock_running(t) == lock_call[t].i <= Len(lock_call[t].acquisitions)

next_acquisition(t) == lock_call[t].acquisitions[lock_call[t].i]

\* Thread t waits for a lock.
lock_requested(t) == lock_running(t) /\ lock_call[t].requesting

\* The threads that thread t, waiting for `lock` in `mode`, waits for: a
\* writer waits for every guard on the lock; a reader waits for the write
\* guard and for the writers waiting (a waiting writer holds new readers
\* back).
blockers(t, lock, mode) ==
    IF mode = "write"
    THEN {guard[1] : guard \in lock_holders[lock]}
    ELSE {guard[1] : guard \in {g \in lock_holders[lock] : g[2] = "write"}}
         \cup {u \in LockThreads \ {t} :
                  /\ lock_requested(u)
                  /\ next_acquisition(u).lock = lock
                  /\ next_acquisition(u).op = "write"}

\* Mutant of may_time_out: no acquisition gives up.
never_times_out(acquisition) == FALSE

\* Whether the acquisition gives up with a lock-timeout error after its
\* timeout (HEAD_LOCK_TIMEOUT, ATTESTATION_CACHE_LOCK_TIMEOUT).
may_time_out(acquisition) == acquisition.timeout

\* The index after the end of the call that the acquisition at index i
\* belongs to: an error returns from that call.
RECURSIVE after_return(_, _)
after_return(acquisitions, i) ==
    IF i > Len(acquisitions) THEN i
    ELSE IF acquisitions[i].op = "return" THEN i + 1
    ELSE after_return(acquisitions, i + 1)

\* Thread t enters its operation.
lock_enter(t) ==
    /\ ~lock_running(t)
    /\ lock_call' = [lock_call EXCEPT
                        ![t] = [lock_idle EXCEPT !.acquisitions = acquisitions_of(t)]]
    /\ UNCHANGED <<lock_holders, core_vars, beside_lock_vars>>

\* Thread t reaches an acquisition of a lock that is kept from it, and
\* starts to wait.
lock_wait(t) ==
    /\ lock_running(t)
    /\ ~lock_call[t].requesting
    /\ next_acquisition(t).op \in {"read", "write"}
    /\ blockers(t, next_acquisition(t).lock, next_acquisition(t).op) # {}
    /\ lock_call' = [lock_call EXCEPT ![t].requesting = TRUE]
    /\ UNCHANGED <<lock_holders, core_vars, beside_lock_vars>>

\* The lock is granted to thread t, at once or after a wait.
lock_acquire(t) ==
    /\ lock_running(t)
    /\ next_acquisition(t).op \in {"read", "write"}
    /\ LET acquisition == next_acquisition(t)
       IN  /\ blockers(t, acquisition.lock, acquisition.op) = {}
           /\ lock_holders' =
                 IF acquisition.temporary THEN lock_holders
                 ELSE [lock_holders EXCEPT
                         ![acquisition.lock] = @ \cup {<<t, acquisition.op>>}]
    /\ lock_call' = [lock_call EXCEPT ![t].requesting = FALSE, ![t].i = @ + 1]
    /\ UNCHANGED <<core_vars, beside_lock_vars>>

\* The acquisition of thread t times out: the error returns from the call
\* with `?`, which drops the guards the thread holds.
lock_timeout(t) ==
    /\ lock_requested(t)
    /\ may_time_out(next_acquisition(t))
    /\ lock_holders' = [lock \in LockNames |->
                          {guard \in lock_holders[lock] : guard[1] # t}]
    /\ lock_call' = [lock_call EXCEPT
                        ![t].requesting = FALSE,
                        ![t].i = after_return(lock_call[t].acquisitions, lock_call[t].i)]
    /\ UNCHANGED <<core_vars, beside_lock_vars>>

\* The call that thread t runs returns before its last acquisition, with an
\* error of a `?` or on a branch that needs no further lock; the guards
\* the thread holds are dropped.
lock_return(t) ==
    /\ lock_running(t)
    /\ ~lock_call[t].requesting
    /\ lock_holders' = [lock \in LockNames |->
                          {guard \in lock_holders[lock] : guard[1] # t}]
    /\ lock_call' = [lock_call EXCEPT
                        ![t].i = after_return(lock_call[t].acquisitions, lock_call[t].i)]
    /\ UNCHANGED <<core_vars, beside_lock_vars>>

\* Thread t drops a guard, or returns from an inner call.
lock_drop(t) ==
    /\ lock_running(t)
    /\ next_acquisition(t).op \in {"drop", "return"}
    /\ lock_holders' =
          IF next_acquisition(t).op = "return" THEN lock_holders
          ELSE [lock_holders EXCEPT
                   ![next_acquisition(t).lock] = {guard \in @ : guard[1] # t}]
    /\ lock_call' = [lock_call EXCEPT ![t].i = @ + 1]
    /\ UNCHANGED <<core_vars, beside_lock_vars>>

\* Thread t loads and advances the state of the slow path.
lock_state_load(t) ==
    /\ lock_running(t)
    /\ next_acquisition(t).op = "load"
    /\ lock_call' = [lock_call EXCEPT ![t].i = @ + 1]
    /\ UNCHANGED <<lock_holders, core_vars, beside_lock_vars>>

\* Thread t waits for a lock without a timeout.
waits_without_timeout(t) ==
    /\ lock_requested(t)
    /\ ~may_time_out(next_acquisition(t))

\* A set of threads that wait forever on each other: each waits without a
\* timeout for a lock that a thread of the set keeps from it.
Deadlocked(threads) ==
    /\ threads # {}
    /\ \A t \in threads :
          /\ waits_without_timeout(t)
          /\ blockers(t, next_acquisition(t).lock, next_acquisition(t).op) \cap threads # {}

holds(t, lock, mode) == <<t, mode>> \in lock_holders[lock]

\* C30: no interleaving of block import, head selection with its
\* finalization handling, invalidation, execution-engine notification and
\* committee-cache lookup reaches a state in which a set of threads wait
\* forever on each other's locks.
C30_DeadlockFree == \A threads \in SUBSET LockThreads : ~Deadlocked(threads)

\* The three nestings at once: import waits for the head lock holding the
\* fork choice lock, finalization handling waits for the fork choice lock
\* holding the head lock, and the engine notification waits for the fork
\* choice lock holding the ordering lock.
C30_Witness ==
    /\ holds("imp", "fork_choice", "write")
    /\ lock_requested("imp")
    /\ next_acquisition("imp").lock = "canonical_head"
    /\ holds("fc", "canonical_head", "read")
    /\ lock_requested("fc")
    /\ next_acquisition("fc") = temporary(write("fork_choice"))
    /\ holds("el", "execution_engine_forkchoice_lock", "write")
    /\ lock_requested("el")
    /\ next_acquisition("el") = temporary(read("fork_choice"))
    /\ lock_requested("timer")
    /\ next_acquisition("timer") = temporary(try_write_for("canonical_head"))

\* Thread t of with_committee_cache is about to load or advance a state.
LoadsState(t) == lock_running(t) /\ next_acquisition(t).op = "load"

\* C31: with_committee_cache never holds the shuffling cache lock while it
\* loads or advances a state: on a miss the lock is released before the
\* slow path and taken again only for the insert.
C31_NoShufflingLockOverStateLoad ==
    \A t \in LockThreads :
        LoadsState(t) =>
            \A guard \in lock_holders["shuffling_cache"] : guard[1] # t

\* The lookup is in its slow path while block import, which is about to
\* write the shuffling cache, is not kept from it.
C31_Witness ==
    /\ LoadsState("committee")
    /\ lock_running("imp")
    /\ next_acquisition("imp") = temporary(try_write_for("shuffling_cache"))
    /\ blockers("imp", "shuffling_cache", "write") = {}

\* ------------------------------------------------------------------------
\* C32: a proposer preparation request whose head is more than two epochs
\* behind the prepare epoch is skipped on a cache miss.
\* ------------------------------------------------------------------------
\* The slot of the requests that a lagging head makes stale: the first slot
\* of the third epoch, two epochs after the epoch of the later blocks and
\* three after the epoch of genesis and the first block.
StalePrepareSlots == {start_slot(3)}

\* The request has missed the proposer cache.
ProposerCacheMissed ==
    /\ proposer_call.pc = "get_slot"
    /\ get_slot(beacon_proposer_cache, proposer_call.shuffling_decision_root,
                proposer_call.prepare_slot) = {}

\* The head the request read is more than two epochs behind its prepare epoch.
StaleRequest == proposer_call.head_epoch + 2 < epoch(proposer_call.prepare_slot)

\* C32: on a miss of the proposer cache the duties are computed only when
\* head_epoch + 2 >= prepare_epoch; the request of an older head returns Ok
\* with the proposer cache untouched, no proposer obtained and hence nothing
\* registered with or sent to the execution layer.
C32_StaleRequestSkipped ==
    [][/\ (proposer_call.pc # "compute" /\ proposer_call'.pc = "compute")
          => ~StaleRequest
       /\ (ProposerCacheMissed /\ StaleRequest /\ proposer_call' # proposer_call)
          => /\ proposer_call' = proposer_return("Ok")
             /\ UNCHANGED <<beacon_proposer_cache, prepared>>]_vars

\* A request of the third epoch that found the head in the first and missed
\* the cache.
C32_Witness == ProposerCacheMissed /\ StaleRequest

\* ------------------------------------------------------------------------
\* C33: the weak subjectivity verification is performed once.
\* ------------------------------------------------------------------------
\* import_block is in verify_weak_subjectivity_checkpoint for its block.
WssVerifying == imp.pc = "weak_subjectivity"

\* import_block has returned Ok for a block whose state has finalized the
\* epoch of the checkpoint or a later one; with fork choice built from
\* genesis, the first of them found fork choice below the checkpoint.
WssBlockImported ==
    \E r \in Blocks :
        /\ r \in head_tracker
        /\ r \in events
        /\ config.weak_subjectivity_checkpoint.epoch <= finalized_epoch(r)

\* C33: the verification runs only for a block whose state has finalized
\* the epoch of the checkpoint or a later one while fork choice has not, and
\* once such a block has been imported no later import runs it.
C33_WssVerifiedOnce ==
    WssVerifying =>
        /\ config.weak_subjectivity_checkpoint.epoch <= finalized_epoch(imp.block)
        /\ fork_choice_finalized_epoch(fork_choice)
              < config.weak_subjectivity_checkpoint.epoch
        /\ ~WssBlockImported

\* ------------------------------------------------------------------------
\* C34: a head-selection pass that changed the finalized epoch has run the
\* finalization pruning when it goes on, and no other pass prunes.
\* ------------------------------------------------------------------------
\* The pass of thread t leaves the work after the swap without an error.
AfterSwapWorkDone(t) ==
    pass[t].pc = "persist" /\ pass'[t].pc = "update_execution_engine"

\* The finalized epoch of the head the pass of t installed differs from the
\* one of the head it replaced.
PassFinalizes(t) == finalized_epoch_changed(pass[t].old, pass[t].root)

\* C34: when the pass changed the finalized epoch and its work after the swap
\* ended without error, the finalization pruning has run: the attester cache
\* holds no entry below the new finalized epoch and the observed block
\* producers none below the first slot of that epoch; a pass that did not
\* change the finalized epoch prunes none of them.
C34_FinalizationPruned ==
    [][\A t \in PassThreads :
          /\ (AfterSwapWorkDone(t) /\ PassFinalizes(t))
                => /\ \A e \in finalization'.attester_cache :
                         e >= finalized_epoch(pass[t].root)
                   /\ \A s \in finalization'.observed_block_producers :
                         s >= start_slot(finalized_epoch(pass[t].root))
          /\ (pass'[t] # pass[t] /\ ~(pass[t].pc = "persist" /\ PassFinalizes(t)))
                => UNCHANGED finalization]_vars

\* ------------------------------------------------------------------------
\* wait_for_fork_choice_before_block_production
\* ------------------------------------------------------------------------
\* The slots a block is produced at.
WaitSlots == 0..(MaxPoolSlot + 1)

ForkChoiceWaitResult == {"Success", "Behind", "TimeOut"}

wait_return(wait_result, result) ==
    [wait_call EXCEPT !.pc = "done", !.wait_result = wait_result, !.result = result]

\* wait_for_fork_choice_before_block_production(slot) with the signal
\* configured, up to rx.wait_for_fork_choice: self.slot() may fail; a slot
\* that is neither the current nor the next one is logged and not waited for.
wait_for_fork_choice_before_block_production(s) ==
    /\ wait_call.pc \in {"idle", "done"}
    /\ \/ wait_call' = [wait_idle EXCEPT !.pc = "done", !.slot = s,
                                         !.result = "UnableToReadSlot"]
       \/ wait_call' =
             IF s = slot_clock \/ s = slot_clock + 1
             THEN [wait_idle EXCEPT !.pc = "wait_for_fork_choice", !.slot = s,
                                    !.signal = fork_choice_signal]
             ELSE [wait_idle EXCEPT !.pc = "done", !.slot = s, !.result = "Ok"]
    /\ UNCHANGED <<core_vars, beside_wait_vars>>

\* rx.wait_for_fork_choice(slot, timeout): Success once the slot signalled
\* has reached the slot; Behind when a signal came for an earlier slot;
\* TimeOut when none came in time.
wait_for_fork_choice_results(signal_at_call, signal, s) ==
    IF signal >= s THEN {"Success"}
    ELSE IF signal # signal_at_call THEN {"Behind", "TimeOut"}
    ELSE {"TimeOut"}

\* Mutant of block_production_after_wait: a wait that timed out fails block
\* production.
block_production_fails_on_timeout(wait_result) ==
    IF wait_result = "TimeOut" THEN "ForkChoiceSignalTimeOut" ELSE "Ok"

\* match rx.wait_for_fork_choice(slot, timeout): each of the three results is
\* logged, and Ok(()) is returned.
block_production_after_wait(wait_result) == "Ok"

\* The wait ends with one of its results.
wait_for_fork_choice ==
    /\ wait_call.pc = "wait_for_fork_choice"
    /\ \E wait_result \in wait_for_fork_choice_results(wait_call.signal,
                                                       fork_choice_signal,
                                                       wait_call.slot) :
          wait_call' = wait_return(wait_result, block_production_after_wait(wait_result))
    /\ UNCHANGED <<core_vars, beside_wait_vars>>

\* ------------------------------------------------------------------------
\* C35: per_slot_task signals the end of its head selection whatever the
\* result, and no result of the wait fails block production.
\* ------------------------------------------------------------------------
\* C35: when per_slot_task ends, the slot it read has been signalled to the
\* waiters, whether its head selection returned Ok or an error; and a
\* wait_for_fork_choice_before_block_production call that waited returns Ok
\* whether the wait ended in Success, Behind or TimeOut.
C35_SignalledWhateverTheResult ==
    [][/\ SlotTaskEnds => fork_choice_signal' >= slot_task.slot
       /\ (wait_call.pc = "wait_for_fork_choice" /\ wait_call'.pc = "done")
             => wait_call'.result = "Ok"]_vars

\* Head selection failed at the start of a slot, the slot was signalled all
\* the same, and the producer that had timed out waiting for it went on.
C35_Witness ==
    /\ slot_task.pc = "idle"
    /\ pass["timer"].pc = "done"
    /\ pass["timer"].result \notin {None, "Ok"}
    /\ fork_choice_signal = slot_task.slot
    /\ wait_call.pc = "done"
    /\ wait_call.slot = slot_task.slot
    /\ wait_call.wait_result = "TimeOut"
    /\ wait_call.result = "Ok"

\* ------------------------------------------------------------------------
\* C36: outside block import and head selection the canonical head is a
\* block of fork choice.
\* ------------------------------------------------------------------------
\* Neither process_block, process_chain_segment nor a head-selection pass is
\* running.
NoImportOrHeadSelection ==
    /\ imp.pc \in {"idle", "done"}
    /\ seg.pc \in {"idle", "done"}
    /\ \A t \in PassThreads : pass[t].pc \in {"idle", "done"}

\* C36: whenever no block import and no head selection is in progress, the
\* root of the canonical head is known to fork choice (so that
\* head_safety_status and produce_unaggregated_attestation do not fail with
\* HeadMissingFromForkChoice), also after an import whose store write failed
\* and restored fork choice from the store.
C36_HeadKnownToForkChoice ==
    NoImportOrHeadSelection => contains_block(fork_choice, canonical_head)

\* ------------------------------------------------------------------------
\* C37: after concurrent head-selection passes the canonical head is the
\* head fork choice returned last.
\* ------------------------------------------------------------------------
\* Every head-selection pass has finished, and none with an error.
PassesFinishedOk ==
    \A t \in HeadThreads :
        /\ pass[t].pc \in {"idle", "done"}
        /\ pass[t].pc = "done" => pass[t].result = "Ok"

\* Pass u installed the canonical head, and it is the head get_head returned
\* last.
InstalledLatestGetHead(u) ==
    /\ pass[u].swapped
    /\ pass[u].root = canonical_head
    /\ canonical_head = fork_choice.head

\* C37: once the concurrent passes have finished (fork choice untouched since
\* the last of them read it), the root of the canonical head is the root
\* get_head returned last; and a pass that read an earlier get_head does not
\* replace the head installed by the pass that read the last one.
C37_HeadIsLatestGetHead ==
    /\ [](PassesFinishedOk => canonical_head = fork_choice.head)
    /\ [][\A t, u \in HeadThreads :
             (/\ pass[t].pc = "canonical_head"
              /\ pass[t].root # fork_choice.head
              /\ InstalledLatestGetHead(u))
                => canonical_head' = canonical_head]_vars

ImportedOrSkipped(b) ==
    \/ \E k \in 1..Len(seg.imported) : seg.imported[k] = b
    \/ contains_block(seg.before.fork_choice, b)
    \/ contains_block(fork_choice, b)
    \/ b = GenesisRoot

\* C39: process_chain_segment returns Successful only if every block of the
\* segment was imported by the call or skipped as already known, genesis or
\* finalized; a segment with a block that is irrelevant for another reason is
\* not reported Successful.
C39_SuccessfulCoversSegment ==
    (seg.pc = "done" /\ seg.result = "Successful")
        => \A k \in 1..Len(seg.chain_segment) : ImportedOrSkipped(seg.chain_segment[k])

\* ------------------------------------------------------------------------
\* C40: a head-selection pass that fails leaves the canonical head.
\* ------------------------------------------------------------------------
\* C40: a pass of fork_choice_internal that returned an error has not
\* swapped the canonical head: whatever fails in the pass, the persistence of
\* head and fork choice and the handling of finalization included, the head
\* is the one the pass found.
C40_FailedPassLeavesHead ==
    \A t \in HeadThreads :
        (pass[t].pc = "done" /\ pass[t].result # "Ok") => ~pass[t].swapped

\* ------------------------------------------------------------------------
\* Specifications
\* ------------------------------------------------------------------------
\* Block import interleaved with head selection, before the merge.
Next ==
    \/ \E b \in Blocks : process_block(b)
    \/ import_block_step
    \/ fork_choice_at_slot("fc")
    \/ fork_choice_internal("fc")
    \/ ee_enter("fc")

Spec == Init /\ [][Next]_vars

\* Head selection and the execution-engine handshake on two threads, past
\* the merge.
NextEngine ==
    \/ fork_choice_at_slot("fc")
    \/ update_execution_engine_forkchoice_async
    \/ \E t \in EngineThreads : fork_choice_internal(t)
    \/ \E t \in EngineThreads : execution_engine_update(t)

SpecEngine == InitEngine /\ [][NextEngine]_vars

\* Head selection and the execution-engine handshake on two threads, past
\* the merge, over a justified and finalized block that carries a payload.
SpecJustified == InitJustified /\ [][NextEngine]_vars

\* Block import interleaved with a caller of
\* update_execution_engine_forkchoice_async (and the head selection of its
\* invalidation passes), past the merge.
NextHandoff ==
    \/ \E b \in Blocks : process_block(b)
    \/ import_block_step
    \/ update_execution_engine_forkchoice_async
    \/ fork_choice_internal("el")
    \/ execution_engine_update("el")

SpecHandoff == InitHandoff /\ [][NextHandoff]_vars

\* The re-org depth between the heads of two forked chains.
NextReorg == detect_reorg

SpecReorg == InitReorg /\ [][NextReorg]_vars

\* Chain-segment import and single-block import, one call after the other.
NextSegment ==
    \/ \E chain_segment \in ChainSegments : process_chain_segment(chain_segment)
    \/ \E b \in Blocks : process_block(b)
    \/ process_chain_segment_step
    \/ import_block_step

SpecSegment == Init /\ [][NextSegment]_vars

\* Two callers of fork_choice() run head selection concurrently.
NextHead ==
    \/ \E t \in HeadThreads : fork_choice_at_slot(t)
    \/ \E t \in HeadThreads : fork_choice_internal(t)
    \/ \E t \in HeadThreads : ee_enter(t)

SpecHead == InitHead /\ [][NextHead]_vars

\* Block import on a chain with a weak subjectivity checkpoint.
NextWss ==
    \/ \E b \in Blocks : process_block(b)
    \/ import_block_step
    \/ import_block_weak_subjectivity

SpecWss == InitWss /\ [][NextWss]_vars

\* The aggregation pools under the timer: attestations and sync committee
\* messages arrive while per_slot_task runs head selection and prunes. The
\* chain holds the genesis block only, so that head selection finds the head
\* unchanged (or fails) and ends at its head_info step.
InitAggregation ==
    /\ InitThreads
    /\ InitServices
    /\ forks = forks_idle
    /\ bellatrix = FALSE
    /\ block_error = [r \in Blocks |->
                        IF later_than_parent(r) THEN None ELSE "BlockIsNotLaterThanParent"]
    /\ event_handler = FALSE
    /\ op_pool = 0
    /\ finalization = no_entries
    /\ fork_choice = genesis_fork_choice
    /\ persisted_fork_choice = to_persisted(genesis_fork_choice)
    /\ persisted_beacon_chain = make_persisted_head({GenesisRoot})
    /\ store = {GenesisRoot}
    /\ head_tracker = {GenesisRoot}
    /\ events = {}
    /\ early_attester_cache = NoRoot
    /\ canonical_head = GenesisRoot

NextAggregation ==
    \/ \E item \in PoolItems : add_to_naive_aggregation_pool(item)
    \/ naive_aggregation_pool_insert
    \/ \E item \in PoolItems, positions \in 0..MaxPositions :
          add_to_naive_sync_aggregation_pool(item, positions)
    \/ naive_sync_aggregation_pool_insert
    \/ per_slot_task
    \/ fork_choice_get_head("timer")
    \/ fork_choice_head_info("timer")
    \/ per_slot_task_prune

SpecAggregation == InitAggregation /\ [][NextAggregation]_vars


\* Block import and with_committee_cache side by side, from the genesis
\* chain with every later block passing verification.
NextShuffling ==
    \/ \E b \in Blocks : process_block(b)
    \/ import_block_step
    \/ \E r \in CommitteeHeads, e \in 0..MaxShufflingEpoch : with_committee_cache(r, e)
    \/ with_committee_cache_get_block
    \/ with_committee_cache_lookup
    \/ with_committee_cache_build
    \/ with_committee_cache_insert
    \/ shuffling_cache_evict

SpecShuffling == InitAggregation /\ [][NextShuffling]_vars


\* Head selection on one thread and proposer preparation on another, past
\* the merge.
NextProposer ==
    \/ fork_choice_at_slot("fc")
    \/ fork_choice_internal("fc")
    \/ execution_engine_update("fc")
    \/ \E at_slot \in PrepareSlots : prepare_beacon_proposer_async(at_slot)
    \/ prepare_get_slot
    \/ prepare_compute_proposer_duties
    \/ prepare_insert
    \/ prepare_payload_attributes

SpecProposer == InitEngine /\ [][NextProposer]_vars


\* Block production under each configured maximum network size.
InitProduction ==
    /\ bellatrix = FALSE
    /\ event_handler = FALSE
    /\ op_pool = 0
    /\ finalization = no_entries
    /\ InitThreads
    /\ InitPools
    /\ InitCalls
    /\ config \in {[default_config EXCEPT !.max_network_size = size] :
                      size \in 0..MaxBlockSize}
    /\ forks = forks_idle
    /\ block_error = [r \in Blocks |->
                        IF later_than_parent(r) THEN None ELSE "BlockIsNotLaterThanParent"]
    /\ fork_choice = genesis_fork_choice
    /\ persisted_fork_choice = to_persisted(genesis_fork_choice)
    /\ persisted_beacon_chain = make_persisted_head({GenesisRoot})
    /\ store = {GenesisRoot}
    /\ head_tracker = {GenesisRoot}
    /\ events = {}
    /\ early_attester_cache = NoRoot
    /\ canonical_head = GenesisRoot

NextProduction ==
    \/ \E state_slot \in ProductionSlots, produce_at_slot \in ProductionSlots,
          verification \in ProduceBlockVerification :
          produce_block_on_state(state_slot, produce_at_slot, verification)
    \/ produce_block_check_size
    \/ produce_block_per_block_processing

SpecProduction == InitProduction /\ [][NextProduction]_vars


\* Past the merge, blocks 1 and 2 imported, with the payloads verified or
\* optimistically, and block 2 the canonical head; block 3 is yet to arrive.
InitAttestation ==
    /\ InitThreads
    /\ InitServices
    /\ forks = forks_idle
    /\ bellatrix = TRUE
    /\ event_handler = FALSE
    /\ op_pool = current_epoch
    /\ finalization = no_entries
    /\ block_error = [r \in Blocks |->
                        IF later_than_parent(r) THEN None ELSE "BlockIsNotLaterThanParent"]
    /\ \E status \in {"Valid", "Optimistic"} :
          fork_choice =
             [nodes |-> [r \in Roots |->
                           IF r = GenesisRoot THEN "Irrelevant"
                           ELSE IF r \in {1, 2} THEN status ELSE Absent],
              head |-> 2, justified |-> GenesisRoot, finalized |-> GenesisRoot]
    /\ persisted_fork_choice = to_persisted(fork_choice)
    /\ persisted_beacon_chain = make_persisted_head({GenesisRoot, 1, 2})
    /\ store = {GenesisRoot, 1, 2}
    /\ head_tracker = {GenesisRoot, 1, 2}
    /\ events = {1, 2}
    /\ early_attester_cache = NoRoot
    /\ canonical_head = 2

\* Attestation production beside block import.
NextAttestation ==
    \/ \E b \in Blocks : process_block(b)
    \/ import_block_step
    \/ \E request_slot \in RequestSlots : produce_unaggregated_attestation(request_slot)
    \/ produce_attestation_step

SpecAttestation == InitAttestation /\ [][NextAttestation]_vars


\* The lock acquisitions of block import, two head selections, the
\* execution-engine notification and a committee-cache lookup, interleaved.
NextLocks ==
    \/ \E t \in LockThreads : lock_enter(t)
    \/ \E t \in LockThreads : lock_wait(t)
    \/ \E t \in LockThreads : lock_acquire(t)
    \/ \E t \in LockThreads : lock_timeout(t)
    \/ \E t \in LockThreads : lock_return(t)
    \/ \E t \in LockThreads : lock_drop(t)
    \/ \E t \in LockThreads : lock_state_load(t)

SpecLocks == InitAggregation /\ [][NextLocks]_vars


\* Head selection on one thread and proposer preparation for a far epoch on
\* another, past the merge.
NextStale ==
    \/ fork_choice_at_slot("fc")
    \/ fork_choice_internal("fc")
    \/ execution_engine_update("fc")
    \/ \E at_slot \in StalePrepareSlots : prepare_beacon_proposer_async(at_slot)
    \/ prepare_get_slot
    \/ prepare_compute_proposer_duties
    \/ prepare_insert
    \/ prepare_payload_attributes

SpecStale == InitEngine /\ [][NextStale]_vars


\* per_slot_task, with its head selection, signals the block producers that
\* wait for it.
NextSignal ==
    \/ per_slot_task
    \/ fork_choice_get_head("timer")
    \/ fork_choice_head_info("timer")
    \/ per_slot_task_prune
    \/ \E s \in WaitSlots : wait_for_fork_choice_before_block_production(s)
    \/ wait_for_fork_choice

SpecSignal == InitAggregation /\ [][NextSignal]_vars


\* Past the Bellatrix fork and before the merge transition block: every
\* block imported, none with a payload; no event handler, the operation pool
\* already pruned for the current epoch.
InitCycle ==
    /\ bellatrix = TRUE
    /\ event_handler = FALSE
    /\ op_pool = current_epoch
    /\ finalization = no_entries
    /\ InitImported("Irrelevant")

\* One call of update_execution_engine_forkchoice_async and the invalidation
\* passes and head selections nested in it.
NextCycle ==
    \/ pass["el"].pc = "idle" /\ update_execution_engine_forkchoice_async
    \/ fork_choice_internal("el")
    \/ execution_engine_update("el")

SpecCycle == InitCycle /\ [][NextCycle]_vars

====
